---- MODULE Spec2Model ----
(***************************************************************************)
(* A model of the pipe package (reference-counted revision,                *)
(* src/unnamed/part_001 lines 432-1062): the State, the pendingFlush       *)
(* registry, refCloser, FlushAll, Script and Line.                         *)
(*                                                                         *)
(* Construction (the Pipe functions) is single-threaded and is modelled as *)
(* a call stack of Script/Line frames; the composition being configured is *)
(* chosen stage by stage.  Execution (FlushAll) is one goroutine per       *)
(* registered entry plus the collector loop.                               *)
(***************************************************************************)
EXTENDS Integers, Sequences, FiniteSets, TLC

VARIABLES
    live,            \* the live *State: Stdin, Stdout, Stderr, Dir, Env
    pendingFlushes,  \* State.pendingFlushes: sequence of pendingFlush records
    closers,         \* heap of refCloser objects: sequence of [c, refs]
    pipes,           \* io.Pipe() pairs: per junction, Close calls seen by each end
    stack,           \* call stack of the Script/Line closures being run
    ret,             \* value returned by the Pipe function that just returned
    mainpc,          \* position of Run/Output/...: config, flushall, collect, returned
    result,          \* the error returned by Run (0 is nil)
    npipes,          \* number of Pipe functions the composition is known to hold
    g,               \* FlushAll's goroutines, one per entry: position and locals
    done,            \* FlushAll's buffered channel "done"
    col,             \* FlushAll's collector loop: position, first, loop indices
    ch,              \* execFlusher.ch of each entry: buffered channel of capacity 1
    kills,           \* per entry: Kill invocations made so far
    callers,         \* concurrent callers of one refCloser's Close (SpecRef)
    envs,            \* heap of the backing arrays of the Env slices
    wire,            \* the bytes in the junctions and in the output buffers
    assoc            \* the two compositions SpecAssoc configures in turn; in
                     \* SpecReuse the calls of FlushAll made on one State

vars == <<live, pendingFlushes, closers, pipes, stack, ret, mainpc, result,
          npipes, g, done, col, ch, kills, callers, envs, wire, assoc>>

buildVars == <<live, pendingFlushes, closers, pipes, stack, ret, npipes>>
runVars == <<g, done, col, ch, kills>>
ghostVars == <<wire, assoc>>
auxVars == <<callers, envs, ghostVars>>

(***************************************************************************)
(* Bounds of the model.                                                    *)
(***************************************************************************)
MaxFlushers == 3   \* entries one composition may register
MaxPipes == 5      \* Pipe functions (stages and compositions) in one composition

(***************************************************************************)
(* Stream handles.  A handle is a pointer-like value: two handles are the  *)
(* same stream iff they are equal.                                         *)
(***************************************************************************)
NilHandle == [k |-> "nil", id |-> 0]
EmptyReader == [k |-> "strings.Reader", id |-> 0]
Discard == [k |-> "ioutil.Discard", id |-> 0]
OutputBuffer(n) == [k |-> "OutputBuffer", id |-> n]
PipeReader(j) == [k |-> "PipeReader", id |-> j]
PipeWriter(j) == [k |-> "PipeWriter", id |-> j]

\* x.(io.Closer): of the handles of the model only pipe ends have a Close method
IsCloser(h) == h.k \in {"PipeReader", "PipeWriter"}

\* error values: 0 is nil, i > 0 is the error returned by entry i's Flush,
\* ConfigErr is an error returned by a Pipe function while configuring
NoErr == 0
ConfigErr == -1

\* int32 arithmetic of rc.refs (atomic.AddInt32, refs++): wraps around
MaxInt32 == 2147483647
MinInt32 == (-MaxInt32) - 1
AddInt32(x, d) ==
    IF d > 0 /\ x > MaxInt32 - d THEN MinInt32 + (d - (MaxInt32 - x) - 1)
    ELSE IF d < 0 /\ x < MinInt32 - d THEN MaxInt32 - ((MinInt32 - d) - x - 1)
    ELSE x + d

(***************************************************************************)
(* Env is a Go slice: a header [a, n] that names a backing array of the    *)
(* heap envs and a length.  Two headers with the same array share its      *)
(* elements.  An element "NAME=value" is the pair <<NAME, value>>.         *)
(***************************************************************************)
NilSlice == [a |-> 0, n |-> 0]

\* the strings a slice header e shows in heap hp
EnvContents(hp, e) == IF e.a = 0 THEN <<>> ELSE SubSeq(hp[e.a], 1, e.n)

\* append([]string(nil), e...): a new backing array with the strings of e
CopyEnvHeap(hp, e) == Append(hp, EnvContents(hp, e))
CopyEnvSlice(hp, e) == [a |-> Len(hp) + 1, n |-> e.n]

\* os.Environ(): the environment of the process, in an array of its own
OsEnviron == <<<<"V", "old">>>>
\* a NewState that keeps the writers it is given, nil or not
NewStateKeepsNil(stdout, stderr) ==
    [Stdin  |-> EmptyReader,
     Stdout |-> stdout,
     Stderr |-> stderr,
     Dir    |-> <<>>,
     Env    |-> [a |-> 1, n |-> Len(OsEnviron)]]

\* NewState(stdout, stderr): nil writers are replaced by ioutil.Discard
NewState(stdout, stderr) ==
    [Stdin  |-> EmptyReader,
     Stdout |-> IF stdout = NilHandle THEN Discard ELSE stdout,
     Stderr |-> IF stderr = NilHandle THEN Discard ELSE stderr,
     Dir    |-> <<>>,
     Env    |-> [a |-> 1, n |-> Len(OsEnviron)]]

\* the four runners differ in the writers they hand to NewState
RunnerStates ==
    { NewState(NilHandle, NilHandle),               \* Run
      NewState(OutputBuffer(1), NilHandle),         \* Output
      NewState(OutputBuffer(1), OutputBuffer(1)),   \* CombinedOutput
      NewState(OutputBuffer(1), OutputBuffer(2)) }  \* DisjointOutput

(***************************************************************************)
(* refCloser                                                               *)
(***************************************************************************)
\* rc.uses(c): rc != nil && rc.c == c   (closer id 0 is the nil *refCloser)
uses(rc, c) == rc # 0 /\ closers[rc].c = c

\* x.Close() on a pipe end: count the call on that end
EndpointClose(pp, h) ==
    IF h.k = "PipeReader" THEN [pp EXCEPT ![h.id].rclosed = @ + 1]
    ELSE IF h.k = "PipeWriter" THEN [pp EXCEPT ![h.id].wclosed = @ + 1]
    ELSE pp

\* atomic.AddInt32(&rc.refs, -1) on closer rc of heap cl
RcDecrement(cl, rc) == [cl EXCEPT ![rc].refs = AddInt32(@, -1)]

\* a test that also takes a count below zero for the last release
ReachedZeroOrBelow(cl, rc) == cl[rc].refs <= 0

\* the test of refCloser.Close on the decremented count: AddInt32(...) == 0
ReachedZero(cl, rc) == cl[rc].refs = 0

\* refCloser.Close run to completion by the configuring goroutine:
\* the new <<closers, pipes>>
RcCloseNow(cl, pp, rc) ==
    IF rc = 0 THEN <<cl, pp>>
    ELSE IF ReachedZero(RcDecrement(cl, rc), rc)
         THEN <<RcDecrement(cl, rc), EndpointClose(pp, cl[rc].c)>>
         ELSE <<RcDecrement(cl, rc), pp>>

(***************************************************************************)
(* Flushers.  kind is the implementation (flushFunc or execFlusher); beh   *)
(* is what the user-supplied work does.                                    *)
(***************************************************************************)
Flusher(kind, beh) == [kind |-> kind, beh |-> beh]

\* any Flush: may return nil or an error at any moment after it started
AnyFlushers == { Flusher("flushFunc", "any"), Flusher("execFlusher", "any") }

\* behaviours whose Flush blocks the way the package's own stages do (see
\* CanReturn); SpecLive composes the failing flusher, the Echo of a large
\* payload and the program that runs until killed:
\*   nil, err  a flushFunc that returns nil / an error without blocking
\*   wr        Echo of a short string: one Write to s.Stdout, which a single
\*             Read takes whole
\*   wrbig     Echo of a payload larger than the buffers between a junction
\*             and a process (TestLineTermination writes 256 KiB)
\*   rd        Discard: io.Copy from s.Stdin until end of stream
\*   exit      Exec of a program that exits with status 0 without reading its
\*             standard input, unless it is killed (true)
\*   filter    Exec of a program that reads its standard input to the end and
\*             then exits with status 0, unless it is killed (sed, cat, wc)
\*   hang      Exec of a program that runs until it is killed and does not
\*             read its standard input (tail -f /dev/null)
\* These programs write nothing to a junction: what a filter writes goes to
\* a stream that takes it at once.  cmd.Wait of a process also waits for the
\* copy of cmd.Stdin to end.
BlockingFlushers ==
    { Flusher("flushFunc", "err"), Flusher("flushFunc", "wrbig"),
      Flusher("execFlusher", "hang") }

(***************************************************************************)
(* The call stack.                                                         *)
(***************************************************************************)
Top == stack[Len(stack)]
Pop == SubSeq(stack, 1, Len(stack) - 1)
SetTop(f) == [stack EXCEPT ![Len(stack)] = f]

\* a Pipe function is about to be called: by the runner, or by the Script or
\* Line closure on top of the stack
CallSite ==
    /\ mainpc = "config"
    /\ ret = "none"
    /\ \/ stack = <<>>
       \/ stack # <<>> /\ Top.pc = "call"

\* the values the State shows now: its fields, with the strings of Env
Shown(st, hp) == [st EXCEPT !.Env = EnvContents(hp, st.Env)]

\* the locals of a Script or Line closure with n stages; reg[k] is the set of
\* entries registered so far while its stage k was being configured, entry is
\* what the State showed at the call, junc lists the pipes a Line has made,
\* ran counts the entries of its stages whose Flush a FlushAll called from
\* inside the composition has already run
Frame(kind, n) ==
    [kind |-> kind, n |-> n, i |-> 1, pc |-> "call",
     reg |-> [k \in 1..n |-> {}],
     dir |-> live.Dir, env |-> live.Env,
     entry |-> Shown(live, envs), junc |-> <<>>,
     startLen |-> Len(pendingFlushes), oldLen |-> Len(pendingFlushes),
     newLen |-> Len(pendingFlushes), fi |-> 0, chk |-> "",
     endStdout |-> live.Stdout, r |-> NilHandle, w |-> NilHandle,
     closeIn |-> 0, closeOut |-> 0, ran |-> 0]

\* the entries registered while an earlier stage of a Script that is now being
\* configured was configured (its nested compositions included)
EarlierInScripts ==
    UNION { UNION { stack[d].reg[k] : k \in 1..(stack[d].i - 1) } :
              d \in { e \in 1..Len(stack) : stack[e].kind = "Script" } }

\* the stack once entry fi is registered: every closure being configured
\* notes it under its current stage
NoteRegistered(fi) ==
    [d \in 1..Len(stack) |->
        [stack[d] EXCEPT !.reg[stack[d].i] = @ \cup {fi}]]

(***************************************************************************)
(* State.AddFlusher and the leaf Pipe functions                            *)
(***************************************************************************)
\* the junctions whose upstream stage is being configured: the pipe made for
\* the current stage of every Line that is open
UpstreamOf ==
    { stack[d].w.id : d \in { e \in DOMAIN stack : /\ stack[e].kind = "Line"
                                                    /\ stack[e].w # NilHandle } }

\* pf := &pendingFlush{s: *s, f: f}; pf.s.Env = append([]string(nil), s.Env...)
\* (at notes what the State showed when the entry was registered, up the
\* junctions it is upstream of, depth the number of open Scripts and Lines)
NewPendingFlush(f) ==
    [s |-> [live EXCEPT !.Env = CopyEnvSlice(envs, live.Env)],
     f |-> f, c |-> <<>>, wg |-> 0, wf |-> <<>>,
     after |-> EarlierInScripts, at |-> Shown(live, envs), up |-> UpstreamOf,
     depth |-> Len(stack)]

\* an AddFlusher whose entry keeps the slice of the live State
AddFlusherSharedEnv(f) ==
    /\ pendingFlushes' = Append(pendingFlushes, [NewPendingFlush(f) EXCEPT !.s = live])
    /\ envs' = envs
    /\ stack' = NoteRegistered(Len(pendingFlushes) + 1)

AddFlusher(f) ==
    /\ pendingFlushes' = Append(pendingFlushes, NewPendingFlush(f))
    /\ envs' = CopyEnvHeap(envs, live.Env)
    /\ stack' = NoteRegistered(Len(pendingFlushes) + 1)

\* Exec / FlushFunc / Echo / Read / ...: register one flusher, return nil
StageAddFlusher(menu, maxF) ==
    /\ CallSite
    /\ Len(pendingFlushes) < maxF
    /\ \E f \in menu : AddFlusher(f)
    /\ ret' = "nil"
    /\ UNCHANGED <<live, closers, pipes, npipes, mainpc, result>>
    /\ UNCHANGED <<runVars, callers, ghostVars>>

\* what a Pipe function returned: "none" while none has returned, "nil", or
\* an error value
IsErr(r) == r \notin {"none", "nil"}

\* the errors os.Mkdir may return: one value, or two that differ
MkdirError == {"err"}
MkdirErrors == {"err", "err2"}

\* MkDir when os.Mkdir fails: a Pipe function that returns an error of errs
StageFail(errs) ==
    /\ CallSite
    /\ ret' \in errs
    /\ UNCHANGED <<live, pendingFlushes, closers, pipes, stack, npipes, mainpc, result>>
    /\ UNCHANGED <<runVars, auxVars>>

(***************************************************************************)
(* Path strings.  A path string is the sequence of its names and           *)
(* separators: "/a/b" is <<"/", "a", "/", "b">>, "" is <<>>.               *)
(***************************************************************************)
IsName(t) == t # "/"
NonEmpty(p) == p # <<>>

\* filepath.IsAbs(p)
IsAbs(p) == p # <<>> /\ p[1] = "/"

\* the names of a cleaned path: "." and empty names are dropped, ".." removes
\* the name before it, is dropped at the root and kept at the start of a
\* relative path
RECURSIVE CleanNames(_, _, _)
CleanNames(names, out, rooted) ==
    IF names = <<>> THEN out
    ELSE LET t == Head(names)
             next == IF t = "." THEN out
                     ELSE IF t # ".." THEN Append(out, t)
                     ELSE IF out # <<>> /\ out[Len(out)] # ".."
                          THEN SubSeq(out, 1, Len(out) - 1)
                     ELSE IF rooted THEN out
                     ELSE Append(out, t)
         IN  CleanNames(Tail(names), next, rooted)

\* names with a separator between each two
RECURSIVE Separated(_)
Separated(names) ==
    IF Len(names) <= 1 THEN names
    ELSE <<Head(names), "/">> \o Separated(Tail(names))

\* filepath.Clean(p)
Clean(p) ==
    LET out == Separated(CleanNames(SelectSeq(p, IsName), <<>>, IsAbs(p)))
        all == IF IsAbs(p) THEN <<"/">> \o out ELSE out
    IN  IF all = <<>> THEN <<".">> ELSE all

\* strings.Join(elem, "/")
RECURSIVE JoinSep(_)
JoinSep(elem) ==
    IF elem = <<>> THEN <<>>
    ELSE IF Len(elem) = 1 THEN elem[1]
    ELSE elem[1] \o <<"/">> \o JoinSep(Tail(elem))

\* filepath.Join(elem...): the empty elements are ignored, the rest is joined
\* with separators and cleaned; "" if every element is empty
Join(elem) ==
    IF SelectSeq(elem, NonEmpty) = <<>> THEN <<>>
    ELSE Clean(JoinSep(SelectSeq(elem, NonEmpty)))

\* a Path that joins s.Dir with the segments whatever the first one is
StatePathAlwaysJoins(dir, path) ==
    IF Len(path) = 0 THEN dir
    ELSE Join(<<dir>> \o path)

\* s.Path(path...) with s.Dir = dir
StatePath(dir, path) ==
    IF Len(path) = 0 THEN dir
    ELSE IF IsAbs(path[1]) THEN Join(path)
    ELSE IF Len(path) = 1 THEN Join(<<dir, path[1]>>)
    ELSE Join(<<dir>> \o path)

\* s.Path(dir) on the live State, as ChDir calls it
Path(dir) == StatePath(live.Dir, <<dir>>)

\* ChDir(dir): s.Dir = s.Path(dir)
StageChDir(dirs) ==
    /\ CallSite
    /\ \E dir \in dirs : live' = [live EXCEPT !.Dir = Path(dir)]
    /\ ret' = "nil"
    /\ UNCHANGED <<pendingFlushes, closers, pipes, stack, npipes, mainpc, result>>
    /\ UNCHANGED <<runVars, auxVars>>

\* the indices of the strings of slice e that start with name + "="
EnvIndex(e, name) ==
    { i \in 1..e.n : EnvContents(envs, e)[i][1] = name }
\* a SetEnvVar that appends the string whether or not the name has an entry
StageSetEnvVarAppends(names, values) ==
    /\ CallSite
    /\ \E name \in names, value \in values :
          LET e == live.Env
              kv == <<name, value>>
          IN  /\ envs' = Append(envs, Append(EnvContents(envs, e), kv))
              /\ live' = [live EXCEPT !.Env = [a |-> Len(envs) + 1, n |-> e.n + 1]]
    /\ ret' = "nil"
    /\ UNCHANGED <<pendingFlushes, closers, pipes, stack, npipes, mainpc, result>>
    /\ UNCHANGED <<runVars, callers, ghostVars>>
\* a SetEnvVar that overwrites the first string of the slice when the name
\* has an entry, whichever string holds the name
StageSetEnvVarClobbers(names, values) ==
    /\ CallSite
    /\ \E name \in names, value \in values :
          LET e == live.Env
              kv == <<name, value>>
              hit == EnvIndex(e, name)
          IN  IF hit # {}
              THEN /\ envs' = [envs EXCEPT ![e.a][1] = kv]
                   /\ live' = live
              ELSE /\ envs' = Append(envs, Append(EnvContents(envs, e), kv))
                   /\ live' = [live EXCEPT !.Env = [a |-> Len(envs) + 1, n |-> e.n + 1]]
    /\ ret' = "nil"
    /\ UNCHANGED <<pendingFlushes, closers, pipes, stack, npipes, mainpc, result>>
    /\ UNCHANGED <<runVars, callers, ghostVars>>

\* SetEnvVar(name, value) -> s.SetEnvVar(name, value): the first string with
\* the prefix is overwritten in place in the backing array; if there is none
\* the string is appended, in place when the array has room after the slice
\* (it has if it holds more elements than the slice shows; an array that ends
\* where the slice ends may or may not have spare capacity), else in a new
\* array that receives a copy
StageSetEnvVar(names, values) ==
    /\ CallSite
    /\ \E name \in names, value \in values :
          LET e == live.Env
              kv == <<name, value>>
              hit == EnvIndex(e, name)
              first == CHOOSE i \in hit : \A x \in hit : i <= x
          IN  IF hit # {}
              THEN /\ envs' = [envs EXCEPT ![e.a][first] = kv]
                   /\ live' = live
              ELSE \/ /\ e.a # 0
                      /\ envs' = [envs EXCEPT ![e.a] = Append(SubSeq(@, 1, e.n), kv)
                                                       \o SubSeq(@, e.n + 2, Len(@))]
                      /\ live' = [live EXCEPT !.Env = [a |-> e.a, n |-> e.n + 1]]
                   \/ /\ e.a = 0 \/ Len(envs[e.a]) = e.n
                      /\ envs' = Append(envs, Append(EnvContents(envs, e), kv))
                      /\ live' = [live EXCEPT !.Env = [a |-> Len(envs) + 1, n |-> e.n + 1]]
    /\ ret' = "nil"
    /\ UNCHANGED <<pendingFlushes, closers, pipes, stack, npipes, mainpc, result>>
    /\ UNCHANGED <<runVars, callers, ghostVars>>

\* CombineToOut: s.Stderr = s.Stdout
StageCombineToOut ==
    /\ CallSite
    /\ live' = [live EXCEPT !.Stderr = live.Stdout]
    /\ ret' = "nil"
    /\ UNCHANGED <<pendingFlushes, closers, pipes, stack, npipes, mainpc, result>>
    /\ UNCHANGED <<runVars, auxVars>>

\* CombineToErr: s.Stdout = s.Stderr
StageCombineToErr ==
    /\ CallSite
    /\ live' = [live EXCEPT !.Stdout = live.Stderr]
    /\ ret' = "nil"
    /\ UNCHANGED <<pendingFlushes, closers, pipes, stack, npipes, mainpc, result>>
    /\ UNCHANGED <<runVars, auxVars>>

(***************************************************************************)
(* Script                                                                  *)
(***************************************************************************)
\* a Script that chains a stage behind the last entry before it only
ScriptWaitsLastEntryOnly(pfs, startLen, oldLen, newLen) ==
    [k \in 1..Len(pfs) |->
        IF k > oldLen /\ k <= newLen /\ oldLen > startLen
        THEN [pfs[k] EXCEPT !.wg = @ + 1]
        ELSE IF k = oldLen /\ oldLen > startLen
        THEN [pfs[k] EXCEPT !.wf = @ \o [x \in 1..(newLen - oldLen) |-> oldLen + x]]
        ELSE pfs[k]]

\* a Script that chains no entry behind another
ScriptWaitsForNothing(pfs, startLen, oldLen, newLen) == pfs
\* a Script that chains a stage behind every earlier entry of the registry,
\* those registered before the Script was called included
ScriptWaitsFromRegistryStart(pfs, startLen, oldLen, newLen) ==
    [k \in 1..Len(pfs) |->
        IF k > oldLen /\ k <= newLen
        THEN [pfs[k] EXCEPT !.wg = @ + oldLen]
        ELSE IF k <= oldLen
        THEN [pfs[k] EXCEPT !.wf = @ \o [x \in 1..(newLen - oldLen) |-> oldLen + x]]
        ELSE pfs[k]]

\* pf.waitFor(other) for every new entry fi in (oldLen, newLen] and every
\* entry wi in (startLen, oldLen]: pf.wg.Add(1); other.wf = append(other.wf, pf)
ScriptWaits(pfs, startLen, oldLen, newLen) ==
    [k \in 1..Len(pfs) |->
        IF k > oldLen /\ k <= newLen
        THEN [pfs[k] EXCEPT !.wg = @ + (oldLen - startLen)]
        ELSE IF k > startLen /\ k <= oldLen
        THEN [pfs[k] EXCEPT !.wf = @ \o [x \in 1..(newLen - oldLen) |-> oldLen + x]]
        ELSE pfs[k]]

\* a Script that goes on with the Env slice it was called with
ScriptEnterSharedEnv(maxPipes) ==
    /\ CallSite
    /\ \E n \in 0..(maxPipes - npipes) :
          /\ npipes' = npipes + n
          /\ IF n = 0
             THEN /\ ret' = "nil"
                  /\ stack' = stack
             ELSE /\ ret' = "none"
                  /\ stack' = Append(stack, Frame("Script", n))
    /\ UNCHANGED <<live, pendingFlushes, closers, pipes, mainpc, result>>
    /\ UNCHANGED <<runVars, auxVars>>

\* Script(p...)(s) up to its first stage; with no stages it returns nil at once
ScriptEnter(maxPipes) ==
    /\ CallSite
    /\ \E n \in 0..(maxPipes - npipes) :
          /\ npipes' = npipes + n
          /\ IF n = 0
             THEN /\ ret' = "nil"
                  /\ stack' = stack
                  /\ live' = live
             ELSE /\ ret' = "none"
                  /\ stack' = Append(stack, Frame("Script", n))
                  /\ live' = [live EXCEPT !.Env = CopyEnvSlice(envs, live.Env)]
    /\ envs' = CopyEnvHeap(envs, live.Env)
    /\ UNCHANGED <<pendingFlushes, closers, pipes, mainpc, result>>
    /\ UNCHANGED <<runVars, callers, ghostVars>>

\* a Script that goes on to its next stage when a stage returned an error
ScriptAfterStageGoesOn ==
    /\ mainpc = "config"
    /\ stack # <<>>
    /\ Top.kind = "Script"
    /\ Top.pc = "call"
    /\ ret # "none"
    /\ IF Top.i = Top.n
       THEN /\ stack' = Pop
            /\ ret' = ret
            /\ live' = [live EXCEPT !.Dir = Top.dir, !.Env = Top.env]
       ELSE /\ stack' = SetTop([Top EXCEPT !.i = @ + 1,
                                           !.oldLen = Len(pendingFlushes),
                                           !.newLen = Len(pendingFlushes)])
            /\ ret' = "none"
            /\ UNCHANGED live
    /\ pendingFlushes' =
          IF IsErr(ret) THEN pendingFlushes
          ELSE ScriptWaits(pendingFlushes, Top.startLen, Top.oldLen, Len(pendingFlushes))
    /\ UNCHANGED <<closers, pipes, npipes, mainpc, result>>
    /\ UNCHANGED <<runVars, auxVars>>

\* a stage of the Script returned: propagate its error, or chain the entries it
\* registered behind all earlier entries of this Script and go on; the deferred
\* function restores Dir and Env when the Script returns
ScriptAfterStage ==
    /\ mainpc = "config"
    /\ stack # <<>>
    /\ Top.kind = "Script"
    /\ Top.pc = "call"
    /\ ret # "none"
    /\ IF IsErr(ret)
       THEN /\ stack' = Pop
            /\ ret' = ret
            /\ live' = [live EXCEPT !.Dir = Top.dir, !.Env = Top.env]
            /\ UNCHANGED pendingFlushes
       ELSE /\ pendingFlushes' =
                 ScriptWaits(pendingFlushes, Top.startLen, Top.oldLen, Len(pendingFlushes))
            /\ IF Top.i = Top.n
               THEN /\ stack' = Pop
                    /\ ret' = "nil"
                    /\ live' = [live EXCEPT !.Dir = Top.dir, !.Env = Top.env]
               ELSE /\ stack' = SetTop([Top EXCEPT !.i = @ + 1,
                                                   !.oldLen = Len(pendingFlushes),
                                                   !.newLen = Len(pendingFlushes)])
                    /\ ret' = "none"
                    /\ UNCHANGED live
    /\ UNCHANGED <<closers, pipes, npipes, mainpc, result>>
    /\ UNCHANGED <<runVars, auxVars>>

(***************************************************************************)
(* Line                                                                    *)
(***************************************************************************)
\* a closeWhenDone that keeps a closer once for each entry
closeWhenDoneOnce(pfs, fi, rc) ==
    IF \E x \in DOMAIN pfs[fi].c : pfs[fi].c[x] = rc
    THEN pfs
    ELSE [pfs EXCEPT ![fi].c = Append(@, rc)]

\* pf.closeWhenDone(c): pf.c = append(pf.c, c)
closeWhenDone(pfs, fi, rc) == [pfs EXCEPT ![fi].c = Append(@, rc)]

\* the stream of entry pf that one of the three tests of Line's loop looks at
Captured(pf, chk) ==
    IF chk = "Stdin" THEN pf.s.Stdin
    ELSE IF chk = "Stdout" THEN pf.s.Stdout
    ELSE pf.s.Stderr

\* the closer that test compares against: closeIn for Stdin, closeOut otherwise
CloserFor(fr, chk) == IF chk = "Stdin" THEN fr.closeIn ELSE fr.closeOut

\* the frame after one test of the loop body: the next test, or the next entry
NextCheck(fr) ==
    IF fr.chk = "Stdin" THEN [fr EXCEPT !.pc = "inspect", !.chk = "Stdout"]
    ELSE IF fr.chk = "Stdout" THEN [fr EXCEPT !.pc = "inspect", !.chk = "Stderr"]
    ELSE [fr EXCEPT !.pc = "inspect", !.chk = "Stdin", !.fi = @ + 1]

\* Line(p...)(s) up to its loop; with no stages it returns nil at once
LineEnter(maxPipes) ==
    /\ CallSite
    /\ \E n \in 0..(maxPipes - npipes) :
          /\ npipes' = npipes + n
          /\ IF n = 0
             THEN /\ ret' = "nil"
                  /\ stack' = stack
                  /\ live' = live
             ELSE /\ ret' = "none"
                  /\ stack' = Append(stack, [Frame("Line", n) EXCEPT !.pc = "prep"])
                  /\ live' = [live EXCEPT !.Env = CopyEnvSlice(envs, live.Env)]
    /\ envs' = CopyEnvHeap(envs, live.Env)
    /\ UNCHANGED <<pendingFlushes, closers, pipes, mainpc, result>>
    /\ UNCHANGED <<runVars, callers, ghostVars>>

\* head of the loop body for stage i: wrap the reader left by the previous stage,
\* make the pipe to the next stage (none for the last stage), set s.Stdout
LinePrep ==
    /\ mainpc = "config"
    /\ stack # <<>>
    /\ Top.kind = "Line"
    /\ Top.pc = "prep"
    /\ LET withIn == IF Top.r # NilHandle
                     THEN Append(closers, [c |-> Top.r, refs |-> 1])
                     ELSE closers
           closeIn == IF Top.r # NilHandle THEN Len(withIn) ELSE 0
           last == Top.i = Top.n
           j == Len(pipes) + 1
       IN  IF last
           THEN /\ closers' = withIn
                /\ pipes' = pipes
                /\ live' = [live EXCEPT !.Stdout = Top.endStdout]
                /\ stack' = SetTop([Top EXCEPT !.pc = "call", !.closeIn = closeIn,
                                               !.closeOut = 0,
                                               !.r = NilHandle, !.w = NilHandle,
                                               !.oldLen = Len(pendingFlushes)])
           ELSE /\ closers' = Append(withIn, [c |-> PipeWriter(j), refs |-> 1])
                /\ pipes' = Append(pipes, [rclosed |-> 0, wclosed |-> 0])
                /\ live' = [live EXCEPT !.Stdout = PipeWriter(j)]
                /\ stack' = SetTop([Top EXCEPT !.pc = "call", !.closeIn = closeIn,
                                               !.closeOut = Len(withIn) + 1,
                                               !.r = PipeReader(j), !.w = PipeWriter(j),
                                               !.junc = Append(@, j),
                                               !.oldLen = Len(pendingFlushes)])
    /\ UNCHANGED <<pendingFlushes, ret, npipes, mainpc, result>>
    /\ UNCHANGED <<runVars, auxVars>>

\* stage i returned: on an error closeIn.Close() and return the error (the
\* deferred function restores Dir and Env); otherwise start the loop over the
\* entries the stage registered
LineAfterStage ==
    /\ mainpc = "config"
    /\ stack # <<>>
    /\ Top.kind = "Line"
    /\ Top.pc = "call"
    /\ ret # "none"
    /\ IF IsErr(ret)
       THEN /\ closers' = RcCloseNow(closers, pipes, Top.closeIn)[1]
            /\ pipes' = RcCloseNow(closers, pipes, Top.closeIn)[2]
            /\ stack' = Pop
            /\ ret' = ret
            /\ live' = [live EXCEPT !.Dir = Top.dir, !.Env = Top.env]
       ELSE /\ stack' = SetTop([Top EXCEPT !.pc = "inspect", !.chk = "Stdin",
                                           !.newLen = Len(pendingFlushes),
                                           !.fi = Top.oldLen + 1])
            /\ ret' = "none"
            /\ UNCHANGED <<closers, pipes, live>>
    /\ UNCHANGED <<pendingFlushes, npipes, mainpc, result>>
    /\ UNCHANGED <<runVars, auxVars>>

\* a loop body that attaches the closer without counting the new reference
LineInspectNoIncrement ==
    /\ mainpc = "config"
    /\ stack # <<>>
    /\ Top.kind = "Line"
    /\ Top.pc = "inspect"
    /\ IF Top.fi > Top.newLen
       THEN stack' = SetTop([Top EXCEPT !.pc = "closeIn"])
       ELSE LET h == Captured(pendingFlushes[Top.fi], Top.chk)
                rc == CloserFor(Top, Top.chk)
            IN  IF IsCloser(h) /\ uses(rc, h)
                THEN stack' = SetTop([Top EXCEPT !.pc = "attach"])
                ELSE stack' = SetTop(NextCheck(Top))
    /\ UNCHANGED <<live, pendingFlushes, closers, pipes, ret, npipes, mainpc, result>>
    /\ UNCHANGED <<runVars, auxVars>>

\* a loop body that passes over an entry that already has a closer
LineInspectSkipsAttached ==
    /\ mainpc = "config"
    /\ stack # <<>>
    /\ Top.kind = "Line"
    /\ Top.pc = "inspect"
    /\ IF Top.fi > Top.newLen
       THEN /\ stack' = SetTop([Top EXCEPT !.pc = "closeIn"])
            /\ UNCHANGED closers
       ELSE LET h == Captured(pendingFlushes[Top.fi], Top.chk)
                rc == CloserFor(Top, Top.chk)
            IN  IF IsCloser(h) /\ uses(rc, h) /\ pendingFlushes[Top.fi].c = <<>>
                THEN /\ closers' = [closers EXCEPT ![rc].refs = AddInt32(@, 1)]
                     /\ stack' = SetTop([Top EXCEPT !.pc = "attach"])
                ELSE /\ stack' = SetTop(NextCheck(Top))
                     /\ UNCHANGED closers
    /\ UNCHANGED <<live, pendingFlushes, pipes, ret, npipes, mainpc, result>>
    /\ UNCHANGED <<runVars, auxVars>>

\* one test of the loop body for entry fi: if the captured stream is the
\* closer's endpoint, refs++ (the closeWhenDone follows); after the last entry
\* the loop ends
LineInspect ==
    /\ mainpc = "config"
    /\ stack # <<>>
    /\ Top.kind = "Line"
    /\ Top.pc = "inspect"
    /\ IF Top.fi > Top.newLen
       THEN /\ stack' = SetTop([Top EXCEPT !.pc = "closeIn"])
            /\ UNCHANGED closers
       ELSE LET h == Captured(pendingFlushes[Top.fi], Top.chk)
                rc == CloserFor(Top, Top.chk)
            IN  IF IsCloser(h) /\ uses(rc, h)
                THEN /\ closers' = [closers EXCEPT ![rc].refs = AddInt32(@, 1)]
                     /\ stack' = SetTop([Top EXCEPT !.pc = "attach"])
                ELSE /\ stack' = SetTop(NextCheck(Top))
                     /\ UNCHANGED closers
    /\ UNCHANGED <<live, pendingFlushes, pipes, ret, npipes, mainpc, result>>
    /\ UNCHANGED <<runVars, auxVars>>

\* a loop body that counts the reference and leaves the closer off the entry
LineAttachForgets ==
    /\ mainpc = "config"
    /\ stack # <<>>
    /\ Top.kind = "Line"
    /\ Top.pc = "attach"
    /\ pendingFlushes' = pendingFlushes
    /\ stack' = SetTop(NextCheck(Top))
    /\ UNCHANGED <<live, closers, pipes, ret, npipes, mainpc, result>>
    /\ UNCHANGED <<runVars, auxVars>>

\* pf.closeWhenDone(closeIn) or pf.closeWhenDone(closeOut) after the refs++
LineAttach ==
    /\ mainpc = "config"
    /\ stack # <<>>
    /\ Top.kind = "Line"
    /\ Top.pc = "attach"
    /\ pendingFlushes' = closeWhenDone(pendingFlushes, Top.fi, CloserFor(Top, Top.chk))
    /\ stack' = SetTop(NextCheck(Top))
    /\ UNCHANGED <<live, closers, pipes, ret, npipes, mainpc, result>>
    /\ UNCHANGED <<runVars, auxVars>>

\* closeIn.Close() after the loop
LineCloseIn ==
    /\ mainpc = "config"
    /\ stack # <<>>
    /\ Top.kind = "Line"
    /\ Top.pc = "closeIn"
    /\ closers' = RcCloseNow(closers, pipes, Top.closeIn)[1]
    /\ pipes' = RcCloseNow(closers, pipes, Top.closeIn)[2]
    /\ stack' = SetTop([Top EXCEPT !.pc = "closeOut"])
    /\ UNCHANGED <<live, pendingFlushes, ret, npipes, mainpc, result>>
    /\ UNCHANGED <<runVars, auxVars>>

\* a Line that does not hand the junction reader to the next stage
LineCloseOutKeepsStdin ==
    /\ mainpc = "config"
    /\ stack # <<>>
    /\ Top.kind = "Line"
    /\ Top.pc = "closeOut"
    /\ closers' = RcCloseNow(closers, pipes, Top.closeOut)[1]
    /\ pipes' = RcCloseNow(closers, pipes, Top.closeOut)[2]
    /\ IF Top.i < Top.n
       THEN /\ live' = live
            /\ stack' = SetTop([Top EXCEPT !.pc = "prep", !.i = @ + 1])
            /\ ret' = "none"
       ELSE /\ live' = [live EXCEPT !.Dir = Top.dir, !.Env = Top.env]
            /\ stack' = Pop
            /\ ret' = "nil"
    /\ UNCHANGED <<pendingFlushes, npipes, mainpc, result>>
    /\ UNCHANGED <<runVars, auxVars>>

\* closeOut.Close(), then s.Stdin = r unless this was the last stage; after the
\* last stage Line returns nil and the deferred function restores Dir and Env
LineCloseOut ==
    /\ mainpc = "config"
    /\ stack # <<>>
    /\ Top.kind = "Line"
    /\ Top.pc = "closeOut"
    /\ closers' = RcCloseNow(closers, pipes, Top.closeOut)[1]
    /\ pipes' = RcCloseNow(closers, pipes, Top.closeOut)[2]
    /\ IF Top.i < Top.n
       THEN /\ live' = [live EXCEPT !.Stdin = Top.r]
            /\ stack' = SetTop([Top EXCEPT !.pc = "prep", !.i = @ + 1])
            /\ ret' = "none"
       ELSE /\ live' = [live EXCEPT !.Dir = Top.dir, !.Env = Top.env]
            /\ stack' = Pop
            /\ ret' = "nil"
    /\ UNCHANGED <<pendingFlushes, npipes, mainpc, result>>
    /\ UNCHANGED <<runVars, auxVars>>

(***************************************************************************)
(* Run / Output / CombinedOutput / DisjointOutput                          *)
(***************************************************************************)
NumEntries == Len(pendingFlushes)
Entries == 1..NumEntries

ColInit == [pc |-> "idle", n |-> 0, first |-> NoErr, ki |-> 0]

\* a runner that calls s.FlushAll() whatever p(s) returned
RunAfterPipeAlwaysFlushes ==
    /\ mainpc = "config"
    /\ stack = <<>>
    /\ ret # "none"
    /\ mainpc' = "flushall"
    /\ result' = IF IsErr(ret) THEN ConfigErr ELSE result
    /\ ret' = "none"
    /\ npipes' = 0
    /\ UNCHANGED <<live, pendingFlushes, closers, pipes, stack>>
    /\ UNCHANGED <<runVars, auxVars>>

\* err := p(s); if err == nil { err = s.FlushAll() }; return err
RunAfterPipe ==
    /\ mainpc = "config"
    /\ stack = <<>>
    /\ ret # "none"
    /\ IF IsErr(ret)
       THEN /\ mainpc' = "returned"
            /\ result' = ConfigErr
       ELSE /\ mainpc' = "flushall"
            /\ UNCHANGED result
    /\ ret' = "none"
    /\ npipes' = 0
    /\ UNCHANGED <<live, pendingFlushes, closers, pipes, stack>>
    /\ UNCHANGED <<runVars, auxVars>>

(***************************************************************************)
(* State.FlushAll                                                          *)
(***************************************************************************)
\* done := make(chan error, len(s.pendingFlushes)) and the go statements: every
\* goroutine exists and stands before pf.wait()
FlushAllStart ==
    /\ mainpc = "flushall"
    /\ mainpc' = "collect"
    /\ g' = [i \in Entries |-> [pc |-> "wait", res |-> NoErr, ci |-> 1, wi |-> 1,
                                proc |-> "none"]]
    /\ done' = <<>>
    /\ col' = [ColInit EXCEPT !.pc = "recv"]
    /\ ch' = [i \in Entries |-> <<>>]
    /\ kills' = [i \in Entries |-> 0]
    /\ UNCHANGED <<buildVars, result, auxVars>>

\* what cmd.Start() may do for an execFlusher of behaviour beh
StartOutcomes(beh) ==
    IF beh = "any" THEN {"running", "failed"}
    ELSE IF beh = "startfail" THEN {"failed"}
    ELSE {"running"}

\* pf.wait() returns (the WaitGroup counter is zero) and pf.f.Flush(&pf.s) is
\* called; an execFlusher runs cmd.Start() and sends cmd.Process on f.ch, and
\* returns the error at once if Start failed (cmd.Process is then nil)
GoStartFlush(i) ==
    /\ mainpc = "collect"
    /\ g[i].pc = "wait"
    /\ pendingFlushes[i].wg = 0
    /\ IF pendingFlushes[i].f.kind = "execFlusher"
       THEN \E o \in StartOutcomes(pendingFlushes[i].f.beh) :
               /\ ch' = [ch EXCEPT ![i] = Append(@, o)]
               /\ IF o = "failed"
                  THEN g' = [g EXCEPT ![i].pc = "done", ![i].res = i]
                  ELSE g' = [g EXCEPT ![i].pc = "flush", ![i].proc = "running"]
       ELSE /\ g' = [g EXCEPT ![i].pc = "flush"]
            /\ UNCHANGED ch
    /\ UNCHANGED <<buildVars, mainpc, result, done, col, kills, auxVars>>

\* the end of a pipe that entry i holds as h has had Close called on it
ReaderClosed(h) == h.k = "PipeReader" /\ pipes[h.id].rclosed > 0
WriterClosed(h) == h.k = "PipeWriter" /\ pipes[h.id].wclosed > 0

\* the reader end h is being read by an entry that takes what a Write of the
\* given size offers: a flusher that copies from it to the end of the stream;
\* an execFlusher whose process has started, as cmd.Stdin = s.Stdin makes
\* os/exec copy a Stdin that is not an *os.File to the process in a goroutine
\* of its own.  That copy takes a short Write whatever the program does, and
\* the whole of a large one only while the program goes on reading
BeingRead(h, large) ==
    \E k \in DOMAIN g :
        /\ g[k].pc = "flush"
        /\ pendingFlushes[k].s.Stdin = h
        /\ \/ pendingFlushes[k].f.beh = "rd"
           \/ /\ pendingFlushes[k].f.kind = "execFlusher"
              /\ ~large \/ ( /\ pendingFlushes[k].f.beh \in {"filter", "any"}
                              /\ g[k].proc = "running" )

\* Write on a pipe writer: the bytes are handed to a reader that is reading
\* (nil), or the pipe has been closed at either end (io.ErrClosedPipe);
\* otherwise the Write blocks.  Any other writer takes the bytes.
WriteReturns(h, res, large) ==
    IF h.k = "PipeWriter"
    THEN IF ReaderClosed(PipeReader(h.id)) \/ WriterClosed(h)
         THEN res # NoErr
         ELSE res = NoErr /\ BeingRead(PipeReader(h.id), large)
    ELSE res = NoErr

\* io.Copy from a pipe reader: ends with nil once the writer end is closed,
\* with io.ErrClosedPipe once the reader end is closed; otherwise it blocks.
\* The empty strings.Reader is at end of stream at once.
CopyReturns(h, res) ==
    IF h.k = "PipeReader"
    THEN IF ReaderClosed(h) THEN res # NoErr
         ELSE res = NoErr /\ WriterClosed(PipeWriter(h.id))
    ELSE res = NoErr

\* bytes have been offered on the pipe of reader h: an entry that writes to
\* the writer end has started Flush
Fed(h) ==
    /\ h.k = "PipeReader"
    /\ \E k \in DOMAIN g :
          /\ g[k].pc # "wait"
          /\ pendingFlushes[k].f.beh \in {"wr", "wrbig", "any"}
          /\ \/ pendingFlushes[k].s.Stdout = PipeWriter(h.id)
             \/ pendingFlushes[k].s.Stderr = PipeWriter(h.id)

\* what p.Kill() does to the process of entry i while cmd.Wait is pending.
\* A program that exits by itself may have exited before the signal, and
\* p.Kill() does nothing to a process that has finished: Exec("true") may
\* have exited at any moment after cmd.Start, a program that reads its input
\* to the end only once the copy of cmd.Stdin has reached the end of the
\* stream.  Such a process is "signalled": it exited by itself or was killed,
\* whichever came first.  Any other process is still running and is "killed"
KillOutcome(i) ==
    LET pf == pendingFlushes[i]
    IN  IF \/ pf.f.beh \in {"exit", "true"}
           \/ pf.f.beh = "filter" /\ CopyReturns(pf.s.Stdin, NoErr)
        THEN "signalled"
        ELSE "killed"

\* the copy of cmd.Stdin to the process of entry i has ended with an error:
\* its Read found the reader end closed, or its Write of bytes it had read
\* failed (write |1: broken pipe) because the process was gone, killed or
\* having exited without reading
StdinCopyFailed(i) ==
    LET h == pendingFlushes[i].s.Stdin
    IN  \/ ReaderClosed(h)
        \/ Fed(h) /\ (g[i].proc = "killed" \/ pendingFlushes[i].f.beh = "exit")

\* cmd.Wait() of entry i returns res.  It returns when the process has exited
\* and the copy of cmd.Stdin has ended: nil if the program exited with status
\* 0 and the copy reached the end of the stream; an error if the process was
\* killed or the copy failed.  Only a program that exits by itself exits with
\* status 0, and it does so also when Kill was called on it after it had
\* exited; a signalled process gives either result
WaitReturns(i, res) ==
    LET h == pendingFlushes[i].s.Stdin
        exits == pendingFlushes[i].f.beh \in {"exit", "filter"}
    IN  IF res = NoErr
        THEN exits /\ g[i].proc \in {"running", "signalled"} /\ CopyReturns(h, NoErr)
        ELSE \/ /\ g[i].proc \in {"killed", "signalled"}
                /\ CopyReturns(h, NoErr) \/ StdinCopyFailed(i)
             \/ exits /\ g[i].proc = "running" /\ StdinCopyFailed(i)

\* may entry i's Flush return res now?  It is up to the work the flusher does
CanReturn(i, res) ==
    LET pf == pendingFlushes[i]
    IN  CASE pf.f.beh = "any"    -> TRUE
          [] pf.f.beh = "nil"    -> res = NoErr
          [] pf.f.beh = "err"    -> res # NoErr
          [] pf.f.beh = "wr"     -> WriteReturns(pf.s.Stdout, res, FALSE)
          [] pf.f.beh = "wrbig"  -> WriteReturns(pf.s.Stdout, res, TRUE)
          [] pf.f.beh = "rd"     -> CopyReturns(pf.s.Stdin, res)
          [] pf.f.beh \in {"exit", "filter", "hang"} -> WaitReturns(i, res)
          [] OTHER -> FALSE

\* pf.f.Flush(&pf.s) returns res; a process that was started has been waited for
GoFlushReturn(i) ==
    /\ mainpc = "collect"
    /\ g[i].pc = "flush"
    /\ \E res \in {NoErr, i} :
          /\ CanReturn(i, res)
          /\ g' = [g EXCEPT ![i].pc = "done", ![i].res = res,
                            ![i].proc = IF @ = "none" THEN "none" ELSE "exited"]
    /\ UNCHANGED <<buildVars, mainpc, result, done, col, ch, kills, auxVars>>

\* a done() whose Close closes the endpoint whatever the count is
GoCloseNextClosesAtOnce(i) ==
    /\ mainpc = "collect"
    /\ g[i].pc = "done"
    /\ g[i].ci <= Len(pendingFlushes[i].c)
    /\ LET rc == pendingFlushes[i].c[g[i].ci]
       IN  /\ closers' = RcDecrement(closers, rc)
           /\ g' = [g EXCEPT ![i].pc = "close"]
    /\ UNCHANGED <<live, pendingFlushes, pipes, stack, ret, npipes>>
    /\ UNCHANGED <<mainpc, result, done, col, ch, kills, auxVars>>

\* pf.done(), first loop: c.Close() of the next registered closer begins with
\* atomic.AddInt32(&rc.refs, -1); the goroutine that reaches zero goes on to
\* close the endpoint
GoCloseNext(i) ==
    /\ mainpc = "collect"
    /\ g[i].pc = "done"
    /\ g[i].ci <= Len(pendingFlushes[i].c)
    /\ LET rc == pendingFlushes[i].c[g[i].ci]
       IN  /\ closers' = RcDecrement(closers, rc)
           /\ IF ReachedZero(RcDecrement(closers, rc), rc)
              THEN g' = [g EXCEPT ![i].pc = "close"]
              ELSE g' = [g EXCEPT ![i].ci = @ + 1]
    /\ UNCHANGED <<live, pendingFlushes, pipes, stack, ret, npipes>>
    /\ UNCHANGED <<mainpc, result, done, col, ch, kills, auxVars>>

\* rc.c.Close() by the goroutine that brought rc.refs to zero
GoEndpointClose(i) ==
    /\ mainpc = "collect"
    /\ g[i].pc = "close"
    /\ pipes' = EndpointClose(pipes, closers[pendingFlushes[i].c[g[i].ci]].c)
    /\ g' = [g EXCEPT ![i].pc = "done", ![i].ci = @ + 1]
    /\ UNCHANGED <<live, pendingFlushes, closers, stack, ret, npipes>>
    /\ UNCHANGED <<mainpc, result, done, col, ch, kills, auxVars>>

\* a done() that signals its waiters without closing its closers first
GoReleaseBeforeClose(i) ==
    /\ mainpc = "collect"
    /\ g[i].pc = "done"
    /\ g[i].wi <= Len(pendingFlushes[i].wf)
    /\ pendingFlushes' =
          [pendingFlushes EXCEPT ![pendingFlushes[i].wf[g[i].wi]].wg = @ - 1]
    /\ g' = [g EXCEPT ![i].wi = @ + 1]
    /\ UNCHANGED <<live, closers, pipes, stack, ret, npipes>>
    /\ UNCHANGED <<mainpc, result, done, col, ch, kills, auxVars>>
\* a done() that signals its waiters only when Flush returned nil
GoReleaseOnSuccess(i) ==
    /\ mainpc = "collect"
    /\ g[i].pc = "done"
    /\ g[i].ci > Len(pendingFlushes[i].c)
    /\ g[i].wi <= Len(pendingFlushes[i].wf)
    /\ pendingFlushes' =
          IF g[i].res = NoErr
          THEN [pendingFlushes EXCEPT ![pendingFlushes[i].wf[g[i].wi]].wg = @ - 1]
          ELSE pendingFlushes
    /\ g' = [g EXCEPT ![i].wi = @ + 1]
    /\ UNCHANGED <<live, closers, pipes, stack, ret, npipes>>
    /\ UNCHANGED <<mainpc, result, done, col, ch, kills, auxVars>>

\* pf.done(), second loop: wf.wg.Done() for the next waiter
GoRelease(i) ==
    /\ mainpc = "collect"
    /\ g[i].pc = "done"
    /\ g[i].ci > Len(pendingFlushes[i].c)
    /\ g[i].wi <= Len(pendingFlushes[i].wf)
    /\ pendingFlushes' =
          [pendingFlushes EXCEPT ![pendingFlushes[i].wf[g[i].wi]].wg = @ - 1]
    /\ g' = [g EXCEPT ![i].wi = @ + 1]
    /\ UNCHANGED <<live, closers, pipes, stack, ret, npipes>>
    /\ UNCHANGED <<mainpc, result, done, col, ch, kills, auxVars>>
\* a send on a channel made without a buffer: it completes only when the
\* collector stands at its receive and nothing is in flight
GoSendUnbuffered(i) ==
    /\ mainpc = "collect"
    /\ g[i].pc = "done"
    /\ g[i].ci > Len(pendingFlushes[i].c)
    /\ g[i].wi > Len(pendingFlushes[i].wf)
    /\ col.pc = "recv"
    /\ done = <<>>
    /\ done' = Append(done, g[i].res)
    /\ g' = [g EXCEPT ![i].pc = "end"]
    /\ UNCHANGED <<buildVars, mainpc, result, col, ch, kills, auxVars>>

\* done <- err: the channel has room for every entry, the send never blocks
GoSend(i) ==
    /\ mainpc = "collect"
    /\ g[i].pc = "done"
    /\ g[i].ci > Len(pendingFlushes[i].c)
    /\ g[i].wi > Len(pendingFlushes[i].wf)
    /\ Len(done) < NumEntries
    /\ done' = Append(done, g[i].res)
    /\ g' = [g EXCEPT ![i].pc = "end"]
    /\ UNCHANGED <<buildVars, mainpc, result, col, ch, kills, auxVars>>

\* a collector that starts the Kill loop on every error it receives
ColRecvKillOnEveryError ==
    /\ mainpc = "collect"
    /\ col.pc = "recv"
    /\ col.n < NumEntries
    /\ done # <<>>
    /\ done' = Tail(done)
    /\ IF Head(done) # NoErr
       THEN col' = [col EXCEPT !.n = @ + 1,
                               !.first = IF @ = NoErr THEN Head(done) ELSE @,
                               !.pc = "kill", !.ki = 1]
       ELSE col' = [col EXCEPT !.n = @ + 1]
    /\ UNCHANGED <<buildVars, mainpc, result, g, ch, kills, auxVars>>

\* a collector that starts the Kill loop on the first result, nil or not
ColRecvKillOnFirstResult ==
    /\ mainpc = "collect"
    /\ col.pc = "recv"
    /\ col.n < NumEntries
    /\ done # <<>>
    /\ done' = Tail(done)
    /\ IF col.n = 0
       THEN col' = [col EXCEPT !.n = @ + 1, !.first = Head(done),
                               !.pc = "kill", !.ki = 1]
       ELSE col' = [col EXCEPT !.n = @ + 1,
                               !.first = IF @ = NoErr THEN Head(done) ELSE @]
    /\ UNCHANGED <<buildVars, mainpc, result, g, ch, kills, auxVars>>

\* a collector that keeps the last error it receives
ColRecvLastErrorWins ==
    /\ mainpc = "collect"
    /\ col.pc = "recv"
    /\ col.n < NumEntries
    /\ done # <<>>
    /\ done' = Tail(done)
    /\ IF Head(done) # NoErr
       THEN IF col.first = NoErr
            THEN col' = [col EXCEPT !.n = @ + 1, !.first = Head(done),
                                    !.pc = "kill", !.ki = 1]
            ELSE col' = [col EXCEPT !.n = @ + 1, !.first = Head(done)]
       ELSE col' = [col EXCEPT !.n = @ + 1]
    /\ UNCHANGED <<buildVars, mainpc, result, g, ch, kills, auxVars>>

\* err := <-done in the collector loop; the first non-nil error is kept and
\* starts the loop that kills every flusher
ColRecv ==
    /\ mainpc = "collect"
    /\ col.pc = "recv"
    /\ col.n < NumEntries
    /\ done # <<>>
    /\ done' = Tail(done)
    /\ IF Head(done) # NoErr /\ col.first = NoErr
       THEN col' = [col EXCEPT !.n = @ + 1, !.first = Head(done),
                               !.pc = "kill", !.ki = 1]
       ELSE col' = [col EXCEPT !.n = @ + 1]
    /\ UNCHANGED <<buildVars, mainpc, result, g, ch, kills, auxVars>>

\* the entries from ki on whose Kill the collector calls before it can block:
\* flushFunc.Kill is empty, execFlusher.Kill receives from f.ch
ExecFrom(ki) == { k \in ki..NumEntries : pendingFlushes[k].f.kind = "execFlusher" }
KillUpTo(ki) ==
    IF ExecFrom(ki) = {} THEN NumEntries
    ELSE CHOOSE k \in ExecFrom(ki) : \A x \in ExecFrom(ki) : k <= x

\* the loop "for _, pf := range s.pendingFlushes { pf.f.Kill() }" from entry
\* col.ki on: Kill is called on each entry in turn; the calls of flushFunc.Kill
\* return at once, the call of an execFlusher's Kill goes on to receive from f.ch
ColKill ==
    /\ mainpc = "collect"
    /\ col.pc = "kill"
    /\ LET last == KillUpTo(col.ki)
       IN  /\ kills' = [k \in DOMAIN kills |->
                          IF k >= col.ki /\ k <= last THEN kills[k] + 1 ELSE kills[k]]
           /\ IF ExecFrom(col.ki) # {}
              THEN col' = [col EXCEPT !.pc = "killrecv", !.ki = last]
              ELSE col' = [col EXCEPT !.pc = "recv", !.ki = 0]
    /\ UNCHANGED <<buildVars, mainpc, result, g, done, ch, auxVars>>

\* execFlusher.Kill: p := <-f.ch blocks until Flush has sent; p.Kill() if p != nil
ColKillRecv ==
    /\ mainpc = "collect"
    /\ col.pc = "killrecv"
    /\ ch[col.ki] # <<>>
    /\ ch' = [ch EXCEPT ![col.ki] = Tail(@)]
    /\ IF Head(ch[col.ki]) = "running" /\ g[col.ki].proc = "running"
       THEN g' = [g EXCEPT ![col.ki].proc = KillOutcome(col.ki)]
       ELSE UNCHANGED g
    /\ IF col.ki = NumEntries
       THEN col' = [col EXCEPT !.pc = "recv", !.ki = 0]
       ELSE col' = [col EXCEPT !.pc = "kill", !.ki = @ + 1]
    /\ UNCHANGED <<buildVars, mainpc, result, done, kills, auxVars>>

\* a FlushAll that returns as soon as it has dealt with the first error
FlushAllReturnOnError ==
    /\ mainpc = "collect"
    /\ col.pc = "recv"
    /\ (col.n = NumEntries \/ col.first # NoErr)
    /\ pendingFlushes' = <<>>
    /\ mainpc' = "returned"
    /\ result' = col.first
    /\ col' = [col EXCEPT !.pc = "returned"]
    /\ UNCHANGED <<live, closers, pipes, stack, ret, npipes>>
    /\ UNCHANGED <<g, done, ch, kills, auxVars>>
\* a FlushAll that returns without clearing the registry
FlushAllReturnKeepsRegistry ==
    /\ mainpc = "collect"
    /\ col.pc = "recv"
    /\ col.n = NumEntries
    /\ pendingFlushes' = pendingFlushes
    /\ mainpc' = "returned"
    /\ result' = col.first
    /\ col' = [col EXCEPT !.pc = "returned"]
    /\ UNCHANGED <<live, closers, pipes, stack, ret, npipes>>
    /\ UNCHANGED <<g, done, ch, kills, auxVars>>

\* every result was received: s.pendingFlushes = nil; return first
FlushAllReturn ==
    /\ mainpc = "collect"
    /\ col.pc = "recv"
    /\ col.n = NumEntries
    /\ pendingFlushes' = <<>>
    /\ mainpc' = "returned"
    /\ result' = col.first
    /\ col' = [col EXCEPT !.pc = "returned"]
    /\ UNCHANGED <<live, closers, pipes, stack, ret, npipes>>
    /\ UNCHANGED <<g, done, ch, kills, auxVars>>

(***************************************************************************)
(* The specification of a run: configure one composition, then FlushAll.   *)
(***************************************************************************)
NoCallers == [n |-> 0, call |-> <<>>]
NoWire == <<>>
NoAssoc == <<>>

InitRun(states) ==
    /\ live \in states
    /\ pendingFlushes = <<>>
    /\ closers = <<>>
    /\ pipes = <<>>
    /\ stack = <<>>
    /\ ret = "none"
    /\ mainpc = "config"
    /\ result = NoErr
    /\ npipes = 1
    /\ g = <<>>
    /\ done = <<>>
    /\ col = ColInit
    /\ ch = <<>>
    /\ kills = <<>>
    /\ callers = NoCallers
    /\ envs = <<OsEnviron>>
    /\ wire = NoWire
    /\ assoc = NoAssoc

\* Output(p): s := NewState(outb, nil)
Init == InitRun({NewState(OutputBuffer(1), NilHandle)})

Configure ==
    \/ StageAddFlusher(AnyFlushers, MaxFlushers)
    \/ StageFail(MkdirError)
    \/ ScriptEnter(MaxPipes)
    \/ ScriptAfterStage
    \/ LineEnter(MaxPipes)
    \/ LinePrep
    \/ LineAfterStage
    \/ LineInspect
    \/ LineAttach
    \/ LineCloseIn
    \/ LineCloseOut
    \/ RunAfterPipe

Execute ==
    \/ FlushAllStart
    \/ \E i \in DOMAIN g : GoStartFlush(i)
    \/ \E i \in DOMAIN g : GoFlushReturn(i)
    \/ \E i \in DOMAIN g : GoCloseNext(i)
    \/ \E i \in DOMAIN g : GoEndpointClose(i)
    \/ \E i \in DOMAIN g : GoRelease(i)
    \/ \E i \in DOMAIN g : GoSend(i)
    \/ ColRecv
    \/ ColKill
    \/ ColKillRecv
    \/ FlushAllReturn

Next == Configure \/ Execute

Spec == Init /\ [][Next]_vars

(***************************************************************************)
(* Configuration alone, of larger compositions that may also rewire the    *)
(* streams, under each of the four runners.                                *)
(***************************************************************************)
BuildFlushers == MaxFlushers + 1
BuildPipes == MaxPipes + 1

InitBuild == InitRun(RunnerStates)

NextBuild ==
    \/ StageAddFlusher(AnyFlushers, BuildFlushers)
    \/ StageFail(MkdirErrors)
    \/ StageCombineToOut
    \/ StageCombineToErr
    \/ ScriptEnter(BuildPipes)
    \/ ScriptAfterStage
    \/ LineEnter(BuildPipes)
    \/ LinePrep
    \/ LineAfterStage
    \/ LineInspect
    \/ LineAttach
    \/ LineCloseIn
    \/ LineCloseOut
    \/ RunAfterPipe

SpecBuild == InitBuild /\ [][NextBuild]_vars

(***************************************************************************)
(* Runs of flushers that block: a flusher that fails, an Echo whose Write  *)
(* blocks until the junction is read or closed, and a process that runs    *)
(* until it is killed.  The compositions are a Line whose stages are       *)
(* flushers or Scripts.  Each goroutine of FlushAll is scheduled by the Go *)
(* runtime whenever it is not blocked, so a step of FlushAll or of its     *)
(* goroutines that can be taken is eventually taken.                       *)
(***************************************************************************)
LiveFlushers == MaxFlushers + 1
LivePipes == MaxPipes + 1

ConfigureLive ==
    \/ StageAddFlusher(BlockingFlushers, LiveFlushers)
    \/ (stack # <<>> /\ ScriptEnter(LivePipes))
    \/ ScriptAfterStage
    \/ (stack = <<>> /\ LineEnter(LivePipes))
    \/ LinePrep
    \/ LineAfterStage
    \/ LineInspect
    \/ LineAttach
    \/ LineCloseIn
    \/ LineCloseOut
    \/ RunAfterPipe

NextLive == ConfigureLive \/ Execute

SpecLive == Init /\ [][NextLive]_vars /\ WF_vars(Execute)

(***************************************************************************)
(* One refCloser created with a count of n and shared by goroutines that   *)
(* each call Close on it once, in any interleaving; there may be more      *)
(* callers than n.                                                         *)
(***************************************************************************)
MaxRefs == 3
MaxCallers == 4

InitRef ==
    /\ live = NewState(NilHandle, NilHandle)
    /\ pendingFlushes = <<>>
    /\ stack = <<>>
    /\ ret = "none"
    /\ mainpc = "config"
    /\ result = NoErr
    /\ npipes = 1
    /\ g = <<>>
    /\ done = <<>>
    /\ col = ColInit
    /\ ch = <<>>
    /\ kills = <<>>
    /\ envs = <<OsEnviron>>
    /\ wire = NoWire
    /\ assoc = NoAssoc
    /\ pipes = <<[rclosed |-> 0, wclosed |-> 0]>>
    /\ \E n \in 1..MaxRefs : \E m \in 1..MaxCallers :
          /\ closers = <<[c |-> PipeReader(1), refs |-> n]>>
          /\ callers = [n |-> n, call |-> [k \in 1..m |-> [pc |-> "call", ord |-> 0]]]

\* the number of Close calls that have done their decrement
Decrements == Cardinality({ k \in DOMAIN callers.call : callers.call[k].ord > 0 })

\* caller k enters rc.Close(): atomic.AddInt32(&rc.refs, -1); a result other
\* than zero returns nil
RefCloseDecrement(k) ==
    /\ callers.call[k].pc = "call"
    /\ closers' = RcDecrement(closers, 1)
    /\ callers' = [callers EXCEPT
                     !.call[k].ord = Decrements + 1,
                     !.call[k].pc = IF ReachedZero(RcDecrement(closers, 1), 1)
                                    THEN "close" ELSE "nil"]
    /\ UNCHANGED <<live, pendingFlushes, pipes, stack, ret, npipes>>
    /\ UNCHANGED <<mainpc, result, runVars, envs, ghostVars>>

\* return rc.c.Close() by the caller whose decrement gave zero
RefCloseEndpoint(k) ==
    /\ callers.call[k].pc = "close"
    /\ pipes' = EndpointClose(pipes, closers[1].c)
    /\ callers' = [callers EXCEPT !.call[k].pc = "closed"]
    /\ UNCHANGED <<live, pendingFlushes, closers, stack, ret, npipes>>
    /\ UNCHANGED <<mainpc, result, runVars, envs, ghostVars>>

NextRef ==
    \/ \E k \in DOMAIN callers.call : RefCloseDecrement(k)
    \/ \E k \in DOMAIN callers.call : RefCloseEndpoint(k)

SpecRef == InitRef /\ [][NextRef]_vars

(***************************************************************************)
(* Properties of FlushAll (specification Spec).                            *)
(***************************************************************************)
\* entry i's Flush has been called
Started(i) == g[i].pc # "wait"

\* entry i's Flush has returned
Returned(i) == g[i].pc \in {"done", "close", "end"}

\* entry i has called Close on every closer registered with it
Released(i) ==
    /\ g[i].pc \in {"done", "end"}
    /\ g[i].ci > Len(pendingFlushes[i].c)

\* C1: for every entry e and every entry d in e's wait-set (e is in d.wf), e's
\* Flush does not start until d's Flush has returned and d has called Close on
\* every one of its registered closers, in every interleaving
C1_WaitSetCompleted ==
    mainpc = "collect" =>
        \A d \in Entries :
            \A x \in 1..Len(pendingFlushes[d].wf) :
                Started(pendingFlushes[d].wf[x]) => (Returned(d) /\ Released(d))

\* an entry has started behind a predecessor that had closers to release
C1_Witness ==
    /\ mainpc = "collect"
    /\ \E d \in Entries :
          /\ Len(pendingFlushes[d].c) > 0
          /\ \E x \in 1..Len(pendingFlushes[d].wf) :
                Started(pendingFlushes[d].wf[x])

\* C2: no flusher registered while stage k+1 of a Script was configured starts
\* Flush before every flusher registered while stages 1..k of that Script were
\* configured (nested compositions included) has returned from Flush
C2_ScriptStagesInOrder ==
    mainpc = "collect" =>
        \A e \in Entries :
            Started(e) => \A d \in pendingFlushes[e].after : Returned(d)

\* a flusher of a third stage has started: two earlier stages lie behind it
C2_Witness ==
    /\ mainpc = "collect"
    /\ \E e \in Entries :
          /\ Started(e)
          /\ \E d1 \in pendingFlushes[e].after :
                \E d2 \in pendingFlushes[e].after :
                    d1 \in pendingFlushes[d2].after

\* C3: when FlushAll returns, with nil or with an error, no entry is still
\* blocked on its wait-set or still executing Flush
C3_ReturnsAfterEveryFlush ==
    (mainpc = "returned" /\ col.pc = "returned") =>
        \A i \in DOMAIN g : g[i].pc \notin {"wait", "flush"}

\* FlushAll has returned an error from a registry of several entries
C3_Witness ==
    /\ mainpc = "returned"
    /\ col.pc = "returned"
    /\ Len(g) >= 2
    /\ result # NoErr

\* C4: if some Flush returned a non-nil error, then when FlushAll returns Kill
\* has been invoked exactly once on every entry's flusher; no entry is ever
\* killed twice, whatever further errors arrive
C4_KillExactlyOnce ==
    /\ \A i \in DOMAIN kills : kills[i] <= 1
    /\ (mainpc = "returned" /\ col.pc = "returned"
          /\ \E i \in DOMAIN g : g[i].res # NoErr)
       => \A i \in DOMAIN kills : kills[i] = 1

\* FlushAll has returned after two entries failed and one returned nil
C4_Witness ==
    /\ mainpc = "returned"
    /\ col.pc = "returned"
    /\ \E i \in DOMAIN g : \E j \in DOMAIN g :
          i # j /\ g[i].res # NoErr /\ g[j].res # NoErr
    /\ \E k \in DOMAIN g : g[k].res = NoErr
    /\ \A i \in DOMAIN kills : kills[i] = 1

\* C6: every Kill invocation made by FlushAll happens after some entry's Flush
\* has returned a non-nil error; in a FlushAll where every Flush returns nil no
\* flusher is killed
C6_KillOnlyAfterError ==
    \A i \in DOMAIN kills :
        kills[i] > 0 =>
            /\ col.first # NoErr
            /\ \E j \in DOMAIN g : Returned(j) /\ g[j].res # NoErr

\* FlushAll has returned nil from a registry of several entries, none killed
C6_Witness ==
    /\ mainpc = "returned"
    /\ col.pc = "returned"
    /\ Len(g) >= 2
    /\ \A i \in DOMAIN g : g[i].res = NoErr
    /\ \A i \in DOMAIN kills : kills[i] = 0

\* C7: FlushAll returns nil if and only if every Flush returned nil; otherwise
\* it returns exactly the non-nil error the collector received first: that
\* error is kept when it is received, no later result replaces it, and it alone
\* is the result
C7_FirstErrorReturned ==
    [][ /\ (col.first # NoErr /\ mainpc = "collect") => col.first' = col.first
        /\ (mainpc = "collect" /\ col.first = NoErr /\ col.n' = col.n + 1)
              => col.first' = Head(done)
        /\ (mainpc = "collect" /\ mainpc' = "returned") =>
              /\ result' = col.first
              /\ (result' = NoErr) <=> (\A i \in DOMAIN g : g[i].res = NoErr)
      ]_vars

\* FlushAll has returned the first of two errors
C7_Witness ==
    /\ mainpc = "returned"
    /\ col.pc = "returned"
    /\ result # NoErr
    /\ \E j \in DOMAIN g : g[j].res # NoErr /\ g[j].res # result

(***************************************************************************)
(* Cancellation with flushers that block (specification SpecLive).         *)
(***************************************************************************)
\* C5: after the first Flush error is observed, every registered flusher
\* eventually receives its Kill invocation and FlushAll eventually returns, for
\* every composition of Script and Line stages whose flushers return once
\* killed or once an endpoint they are blocked on is closed
C5_CancellationCompletes ==
    (mainpc = "collect" /\ col.first # NoErr)
        ~> (mainpc = "returned" /\ \A i \in DOMAIN kills : kills[i] > 0)

\* the collector is inside the Kill of an execFlusher whose goroutine is still
\* waiting for a predecessor, and no goroutine can take a step
C5_Witness ==
    /\ mainpc = "collect"
    /\ col.first # NoErr
    /\ col.pc = "killrecv"
    /\ g[col.ki].pc = "wait"
    /\ pendingFlushes[col.ki].wg > 0
    /\ \E k \in Entries : k > col.ki /\ kills[k] = 0
    /\ ~ENABLED Execute

(***************************************************************************)
(* refCloser.Close under concurrent callers (specification SpecRef).       *)
(***************************************************************************)
\* C8: for a refCloser created with count N >= 1, under any interleaving of
\* concurrent Close calls the endpoint's Close is invoked exactly once, by the
\* N-th Close call; every call after the N-th returns nil and does not close
\* the endpoint again
C8_ClosedOnceByNthCall ==
    /\ pipes[1].rclosed <= 1
    /\ \A k \in DOMAIN callers.call :
          LET c == callers.call[k]
          IN  /\ c.pc \in {"close", "closed"} <=> (c.ord = callers.n)
              /\ c.pc = "nil" <=> (c.ord > 0 /\ c.ord # callers.n)
    /\ pipes[1].rclosed = Cardinality({ k \in DOMAIN callers.call :
                                          callers.call[k].pc = "closed" })
    /\ (\A k \in DOMAIN callers.call : callers.call[k].pc \in {"nil", "closed"})
          => (pipes[1].rclosed = 1 <=> Len(callers.call) >= callers.n)

\* the endpoint was closed by the N-th of more than N calls (N >= 2), and every
\* call has returned
C8_Witness ==
    /\ callers.n >= 2
    /\ Len(callers.call) > callers.n
    /\ \A k \in DOMAIN callers.call : callers.call[k].pc \in {"nil", "closed"}
    /\ pipes[1].rclosed = 1
    /\ \E k \in DOMAIN callers.call :
          callers.call[k].pc = "nil" /\ callers.call[k].ord > callers.n

(***************************************************************************)
(* Junction endpoints of Line (specifications Spec and SpecBuild).         *)
(***************************************************************************)
\* entry i's goroutine exists and its Flush has returned
FlushReturned(i) == i \in DOMAIN g /\ Returned(i)

\* C9: while FlushAll runs the flushers of a configured composition, a
\* junction reader is closed only after every flusher whose captured Stdin is
\* that reader has returned from Flush, and a junction writer only after every
\* flusher whose captured Stdout or Stderr is that writer has returned from
\* Flush
C9_ClosedAfterEveryUser ==
    mainpc = "collect" =>
        \A i \in Entries :
            LET st == pendingFlushes[i].s
            IN  /\ ReaderClosed(st.Stdin) => FlushReturned(i)
                /\ WriterClosed(st.Stdout) => FlushReturned(i)
                /\ WriterClosed(st.Stderr) => FlushReturned(i)

\* a flusher stands before its Flush, behind the flushers of a Line whose last
\* junction reader it captured as Stdin, and that reader has been closed
C9_Witness ==
    /\ mainpc = "collect"
    /\ \E i \in Entries :
          /\ g[i].pc = "wait"
          /\ ReaderClosed(pendingFlushes[i].s.Stdin)
          /\ pendingFlushes[i].c = <<>>
          /\ pendingFlushes[i].after # {}

\* how many times closer c has been attached to an entry
Attached(c) ==
    Cardinality(UNION { { <<i, x>> : x \in { y \in 1..Len(pendingFlushes[i].c) :
                                               pendingFlushes[i].c[y] = c } } :
                        i \in Entries })

\* a Line closure that is configuring a stage still holds its own reference to
\* closer c: it has not reached its closeIn.Close() / closeOut.Close()
LineHolds(c) ==
    \E d \in 1..Len(stack) :
        /\ stack[d].kind = "Line"
        /\ \/ /\ stack[d].closeIn = c
              /\ stack[d].pc \in {"call", "inspect", "attach", "closeIn"}
           \/ /\ stack[d].closeOut = c
              /\ stack[d].pc \in {"call", "inspect", "attach", "closeIn", "closeOut"}

\* the reference to c that Line has counted and is about to attach
Pending(c) ==
    IF stack # <<>> /\ Top.kind = "Line" /\ Top.pc = "attach"
       /\ CloserFor(Top, Top.chk) = c
    THEN 1 ELSE 0

\* the next step of the top closure is Line's closeIn.Close() or
\* closeOut.Close() on c after the loop over the new entries
OwnRelease(c) ==
    /\ stack # <<>>
    /\ Top.kind = "Line"
    /\ \/ Top.pc = "closeIn" /\ Top.closeIn = c
       \/ Top.pc = "closeOut" /\ Top.closeOut = c

\* the next step of the top closure is Line's closeIn.Close() on c because the
\* stage's configuration function returned an error
ErrorRelease(c) ==
    /\ stack # <<>>
    /\ Top.kind = "Line"
    /\ Top.pc = "call"
    /\ IsErr(ret)
    /\ Top.closeIn = c

\* while a Line holds its own reference the count is that reference plus one
\* per attachment made or about to be made: it stays >= 1, and each increment
\* precedes its attachment
CountsWhileHeld ==
    mainpc = "config" =>
        \A c \in DOMAIN closers :
            LineHolds(c) => closers[c].refs = Attached(c) + 1 + Pending(c)

\* every increment happens during construction, before any goroutine exists
IncrementsBeforeFlushAll ==
    \A c \in DOMAIN closers :
        closers'[c].refs > closers[c].refs => (mainpc = "config" /\ g = <<>>)

\* C10 as stated: while Line configures a stage the count of each of its
\* junction closers stays >= 1 until every new flusher has been inspected, it
\* is incremented before the closer is attached, every increment precedes
\* FlushAll's goroutines, and during construction only Line's own release
\* after the inspection loop brings a count to zero
C10_OnlyOwnReleaseAfterLoop ==
    /\ []CountsWhileHeld
    /\ [][ /\ IncrementsBeforeFlushAll
           /\ \A c \in DOMAIN closers :
                 (mainpc = "config" /\ closers[c].refs >= 1 /\ closers'[c].refs = 0)
                    => OwnRelease(c)
         ]_vars

\* C10, amended: as above, but a count is also brought to zero during
\* construction by Line's release of the reader closer when the stage's
\* configuration function returns an error, before any inspection
C10_ReleaseAfterLoopOrOnError ==
    /\ []CountsWhileHeld
    /\ [][ /\ IncrementsBeforeFlushAll
           /\ \A c \in DOMAIN closers :
                 (mainpc = "config" /\ closers[c].refs >= 1 /\ closers'[c].refs = 0)
                    => (OwnRelease(c) \/ ErrorRelease(c))
         ]_vars

\* Line has counted a second flusher of one stage on the junction reader and
\* is about to attach the closer to it
C10_Witness ==
    /\ mainpc = "config"
    /\ stack # <<>>
    /\ Top.kind = "Line"
    /\ Top.pc = "attach"
    /\ Top.chk = "Stdin"
    /\ closers[Top.closeIn].refs = 3
    /\ Attached(Top.closeIn) = 1

(***************************************************************************)
(* Configuration errors (specification SpecBuild).                         *)
(***************************************************************************)
\* stage Top.i of the Script on top of the stack has just returned an error
ScriptStageFailed ==
    /\ mainpc = "config"
    /\ stack # <<>>
    /\ Top.kind = "Script"
    /\ Top.pc = "call"
    /\ IsErr(ret)

\* C18: when the configuration function of a stage of a Script returns an
\* error, the next thing the Script does is return that same error: it calls no
\* later stage, and the registry with the entries of the earlier stages is left
\* as it was
C18_ScriptReturnsStageError ==
    [][ScriptStageFailed =>
          /\ stack' = Pop
          /\ ret' = ret
          /\ pendingFlushes' = pendingFlushes]_vars

\* a stage that is not the last has failed with the second error value after
\* earlier stages of the Script registered entries
C18_Witness ==
    /\ ScriptStageFailed
    /\ ret = "err2"
    /\ Top.i > 1
    /\ Top.i < Top.n
    /\ Top.oldLen > Top.startLen

\* stage Top.i of the Line on top of the stack has just returned an error
LineStageFailed ==
    /\ mainpc = "config"
    /\ stack # <<>>
    /\ Top.kind = "Line"
    /\ Top.pc = "call"
    /\ IsErr(ret)

\* in heap pp, Close has been called on the endpoint that closer rc wraps
\* (vacuous for the nil closer)
EndpointClosedIn(pp, rc) ==
    rc # 0 =>
        IF closers[rc].c.k = "PipeReader"
        THEN pp[closers[rc].c.id].rclosed > 0
        ELSE pp[closers[rc].c.id].wclosed > 0

\* C19 (as stated): when the configuration function of a stage of a Line
\* returns an error, the next thing the Line does is return that same error
\* with both ends of the stage's junction closed: the reader that feeds the
\* stage and the writer made for the stage's output
C19_BothEndsClosedOnError ==
    [][LineStageFailed =>
          /\ stack' = Pop
          /\ ret' = ret
          /\ EndpointClosedIn(pipes', Top.closeIn)
          /\ EndpointClosedIn(pipes', Top.closeOut)]_vars

\* C19 (what the code does): the Line returns that same error, calls no later
\* stage, and has closed the reader that feeds the failed stage
C19_ReaderClosedOnError ==
    [][LineStageFailed =>
          /\ stack' = Pop
          /\ ret' = ret
          /\ pendingFlushes' = pendingFlushes
          /\ EndpointClosedIn(pipes', Top.closeIn)]_vars

\* a middle stage of a Line has failed: it is fed by a junction reader and a
\* junction writer was made for its output, and that writer is still open
C19_Witness ==
    /\ LineStageFailed
    /\ Top.closeIn # 0
    /\ Top.closeOut # 0
    /\ ~EndpointClosedIn(pipes, Top.closeOut)

(***************************************************************************)
(* Run, Output, CombinedOutput and DisjointOutput: each configures one     *)
(* composition on its own State and then, if that returned nil, calls      *)
(* FlushAll (specification SpecRunners).                                   *)
(***************************************************************************)
RunnerFlushers == MaxFlushers - 1

ConfigureRunners ==
    \/ StageAddFlusher(AnyFlushers, RunnerFlushers)
    \/ StageFail(MkdirError)
    \/ ScriptEnter(MaxPipes)
    \/ ScriptAfterStage
    \/ LineEnter(MaxPipes)
    \/ LinePrep
    \/ LineAfterStage
    \/ LineInspect
    \/ LineAttach
    \/ LineCloseIn
    \/ LineCloseOut
    \/ RunAfterPipe

NextRunners == ConfigureRunners \/ Execute

SpecRunners == InitBuild /\ [][NextRunners]_vars

\* C20: under each of the four runners no entry's Flush is called before the
\* configuration function of the whole composition has returned, and none is
\* ever called when it returned an error
C20_FlushOnlyAfterConfiguration ==
    /\ (\E i \in DOMAIN g : Started(i)) =>
           /\ mainpc \in {"collect", "returned"}
           /\ stack = <<>>
    /\ (mainpc = "config" \/ result = ConfigErr) => g = <<>>

\* the runner has returned a configuration error: entries were registered
\* before the failing stage, and no goroutine was ever made for them
C20_Witness ==
    /\ mainpc = "returned"
    /\ result = ConfigErr
    /\ Len(pendingFlushes) = RunnerFlushers
    /\ g = <<>>

(***************************************************************************)
(* Directory and environment: compositions whose stages also change the    *)
(* directory and set environment variables (specification SpecEnv).        *)
(***************************************************************************)
EnvFlushers == MaxFlushers - 1
EnvPipes == MaxPipes + 1
Dirs == { <<"sub">>, <<"/", "tmp">> }
EnvNames == { "V", "W" }
EnvValues == { "new", "after" }

NextEnv ==
    \/ StageAddFlusher({Flusher("flushFunc", "any")}, EnvFlushers)
    \/ StageFail(MkdirError)
    \/ StageChDir(Dirs)
    \/ StageSetEnvVar(EnvNames, EnvValues)
    \/ ScriptEnter(EnvPipes)
    \/ ScriptAfterStage
    \/ LineEnter(EnvPipes)
    \/ LinePrep
    \/ LineAfterStage
    \/ LineInspect
    \/ LineAttach
    \/ LineCloseIn
    \/ LineCloseOut
    \/ RunAfterPipe

SpecEnv == Init /\ [][NextEnv]_vars

\* the string NAME=value is among the strings env
HasVar(env, name, value) == \E i \in DOMAIN env : env[i] = <<name, value>>

\* C16: whenever a Script or a Line returns, with nil or with a configuration
\* error, the State's Dir and the strings of its Env are what they were when
\* that Script or Line was called, whatever ChDir and SetEnvVar did inside it,
\* nested Scripts and Lines included
C16_ScopeRestoresDirEnv ==
    [][(mainpc = "config" /\ Len(stack') < Len(stack)) =>
          /\ live'.Dir = Top.entry.Dir
          /\ EnvContents(envs', live'.Env) = Top.entry.Env]_vars

\* a nested Script is about to return a stage's error after stages inside it
\* changed the directory, overwrote V and appended W
C16_Witness ==
    /\ ScriptStageFailed
    /\ Len(stack) >= 2
    /\ live.Dir # Top.entry.Dir
    /\ HasVar(Top.entry.Env, "V", "old")
    /\ HasVar(EnvContents(envs, live.Env), "V", "new")
    /\ HasVar(EnvContents(envs, live.Env), "W", "after")

\* C17: the State an entry captured when AddFlusher registered it (Dir, the
\* strings of Env, Stdin, Stdout, Stderr) still shows the values of that
\* moment, whatever SetEnvVar, ChDir, rewiring of streams or return of a Script
\* or Line came later
C17_SnapshotUnchanged ==
    \A i \in DOMAIN pendingFlushes :
        Shown(pendingFlushes[i].s, envs) = pendingFlushes[i].at

\* an entry registered after SetEnvVar("V", "new") shows V=new although the
\* live State has since been given V=after and another directory
C17_Witness ==
    \E i \in DOMAIN pendingFlushes :
        /\ HasVar(EnvContents(envs, pendingFlushes[i].s.Env), "V", "new")
        /\ HasVar(EnvContents(envs, live.Env), "V", "after")
        /\ pendingFlushes[i].s.Dir # live.Dir
        /\ pendingFlushes[i].s.Stdin # live.Stdin

(***************************************************************************)
(* The wiring of a Line whose stages leave the streams alone: each stage   *)
(* is a flusher, a failing MkDir, a ChDir, or a Script of such stages; the *)
(* Line itself may be a stage of a Script (specification SpecWire).        *)
(***************************************************************************)
WirePipes == MaxPipes + 2

\* no Line is being configured
NoLineOpen == \A d \in DOMAIN stack : stack[d].kind = "Script"

NextWire ==
    \/ StageAddFlusher(AnyFlushers, MaxFlushers)
    \/ StageFail(MkdirError)
    \/ StageChDir(Dirs)
    \/ ScriptEnter(WirePipes)
    \/ ScriptAfterStage
    \/ (NoLineOpen /\ LineEnter(WirePipes))
    \/ LinePrep
    \/ LineAfterStage
    \/ LineInspect
    \/ LineAttach
    \/ LineCloseIn
    \/ LineCloseOut
    \/ RunAfterPipe

SpecWire == Init /\ [][NextWire]_vars

\* the Line of frame fr has configured its stage k: the head of the loop body
\* ran for it and its configuration function returned nil
StageConfigured(fr, k) ==
    \/ k < fr.i
    \/ k = fr.i /\ fr.pc \in {"inspect", "attach", "closeIn", "closeOut"}

\* C15: in a Line of n+1 stages that leave the streams alone, every entry
\* registered by a stage after the first captured as Stdin the reader of the
\* junction before the stage, every entry of a stage before the last captured
\* as Stdout the writer of the junction after the stage, the entries of the
\* first stage captured the Stdin and those of the last stage the Stdout that
\* the State had when the Line was called; when the Line returns nil it has
\* made exactly n junctions
C15_LineWiring ==
    \A d \in DOMAIN stack :
        stack[d].kind = "Line" =>
            /\ \A k \in 1..stack[d].n :
                  StageConfigured(stack[d], k) =>
                      \A e \in stack[d].reg[k] :
                          /\ pendingFlushes[e].s.Stdin =
                                IF k = 1 THEN stack[d].entry.Stdin
                                ELSE PipeReader(stack[d].junc[k - 1])
                          /\ pendingFlushes[e].s.Stdout =
                                IF k = stack[d].n THEN stack[d].entry.Stdout
                                ELSE PipeWriter(stack[d].junc[k])
            /\ StageConfigured(stack[d], stack[d].n) =>
                  /\ Len(stack[d].junc) = stack[d].n - 1
                  /\ \A x, y \in DOMAIN stack[d].junc :
                        x # y => stack[d].junc[x] # stack[d].junc[y]

\* a Line of three stages is about to return nil, and each of its stages
\* registered an entry
C15_Witness ==
    /\ stack # <<>>
    /\ Top.kind = "Line"
    /\ Top.n = 3
    /\ Top.i = 3
    /\ Top.pc = "closeOut"
    /\ \A k \in 1..3 : Top.reg[k] # {}

(***************************************************************************)
(* Line(a, Line(b, c)) against Line(a, b, c): the first composition is     *)
(* configured on a fresh State, what it left is noted, and the second is   *)
(* configured on another fresh State with the same three stages            *)
(* (specification SpecAssoc).  A composition is a tree of nodes [k, sub].  *)
(***************************************************************************)
AssocFlushers == 2 * MaxFlushers
AssocPipes == 2 * MaxPipes + 1

\* a Pipe function: a leaf (sub is empty), or Script(sub...) or Line(sub...)
Node(k, sub) == [k |-> k, sub |-> sub]

\* the stages a, b and c are drawn from
StageMenu ==
    { Node("flusher", <<>>), Node("fail", <<>>), Node("out", <<>>),
      Node("err", <<>>), Node("chdir", <<>>), Node("setenv", <<>>),
      Node("Script", <<>>), Node("Line", <<>>),
      Node("Script", <<Node("flusher", <<>>), Node("fail", <<>>)>>),
      Node("Script", <<Node("flusher", <<>>), Node("flusher", <<>>)>>),
      Node("Line", <<Node("flusher", <<>>), Node("flusher", <<>>)>>) }

\* the composition of the current phase
Tree ==
    IF assoc.phase = "nested"
    THEN Node("Line", <<assoc.a, Node("Line", <<assoc.b, assoc.c>>)>>)
    ELSE Node("Line", <<assoc.a, assoc.b, assoc.c>>)

RECURSIVE NodeAt(_, _)
NodeAt(t, path) ==
    IF path = <<>> THEN t ELSE NodeAt(t.sub[Head(path)], Tail(path))

\* the Pipe function that the closure on top of the stack (or the runner)
\* calls next: the stage numbers of the open closures lead to it
Callee == NodeAt(Tree, [d \in DOMAIN stack |-> stack[d].i])

\* how often closer rc is registered with an entry
TimesAttached(pf, rc) == Cardinality({ x \in DOMAIN pf.c : pf.c[x] = rc })

\* what a configured composition left behind: the value returned, the
\* registry (each entry with its flusher, what its State shows, its waits and
\* its closers with multiplicity), the closers with their counts, the pipes
\* and what the live State shows
Outcome ==
    [ret |-> ret,
     registry |-> [i \in DOMAIN pendingFlushes |->
                     [f |-> pendingFlushes[i].f,
                      s |-> Shown(pendingFlushes[i].s, envs),
                      wg |-> pendingFlushes[i].wg,
                      wf |-> pendingFlushes[i].wf,
                      c |-> [rc \in DOMAIN closers |->
                               TimesAttached(pendingFlushes[i], rc)]]],
     closers |-> closers,
     pipes |-> pipes,
     live |-> Shown(live, envs)]

InitAssoc ==
    /\ live = NewState(OutputBuffer(1), NilHandle)
    /\ pendingFlushes = <<>>
    /\ closers = <<>>
    /\ pipes = <<>>
    /\ stack = <<>>
    /\ ret = "none"
    /\ mainpc = "config"
    /\ result = NoErr
    /\ npipes = 1
    /\ g = <<>>
    /\ done = <<>>
    /\ col = ColInit
    /\ ch = <<>>
    /\ kills = <<>>
    /\ callers = NoCallers
    /\ envs = <<OsEnviron>>
    /\ wire = NoWire
    /\ \E a \in StageMenu, b \in StageMenu, c \in StageMenu :
          assoc = [phase |-> "nested", a |-> a, b |-> b, c |-> c, first |-> <<>>]

\* the composition of the current phase has returned
AssocReturned == mainpc = "config" /\ stack = <<>> /\ ret # "none"

\* Line(a, Line(b, c)) has returned: note what it left and take a fresh State
\* for Line(a, b, c)
AssocSwitch ==
    /\ AssocReturned
    /\ assoc.phase = "nested"
    /\ assoc' = [assoc EXCEPT !.phase = "flat", !.first = Outcome]
    /\ live' = NewState(OutputBuffer(1), NilHandle)
    /\ pendingFlushes' = <<>>
    /\ closers' = <<>>
    /\ pipes' = <<>>
    /\ ret' = "none"
    /\ npipes' = 1
    /\ envs' = <<OsEnviron>>
    /\ UNCHANGED <<stack, mainpc, result, runVars, callers, wire>>

NextAssoc ==
    \/ (Callee.k = "flusher"
          /\ StageAddFlusher({Flusher("flushFunc", "any")}, AssocFlushers))
    \/ (Callee.k = "fail" /\ StageFail(MkdirError))
    \/ (Callee.k = "out" /\ StageCombineToOut)
    \/ (Callee.k = "err" /\ StageCombineToErr)
    \/ (Callee.k = "chdir" /\ StageChDir({<<"sub">>}))
    \/ (Callee.k = "setenv" /\ StageSetEnvVar({"W"}, {"new"}))
    \/ (Callee.k = "Script" /\ ScriptEnter(AssocPipes)
          /\ npipes' = npipes + Len(Callee.sub))
    \/ ScriptAfterStage
    \/ (Callee.k = "Line" /\ LineEnter(AssocPipes)
          /\ npipes' = npipes + Len(Callee.sub))
    \/ LinePrep
    \/ LineAfterStage
    \/ LineInspect
    \/ LineAttach
    \/ LineCloseIn
    \/ LineCloseOut
    \/ AssocSwitch

SpecAssoc == InitAssoc /\ [][NextAssoc]_vars

\* both compositions have been configured
BothConfigured == AssocReturned /\ assoc.phase = "flat"

\* C14 (as stated): for any stages a, b and c, Line(a, Line(b, c)) and
\* Line(a, b, c) return the same value and leave the same registry (the same
\* flushers in the same order with the same captured streams), the same
\* closers attached to the same entries with the same counts, and the same
\* pipes and live State
C14_SameOutcome == BothConfigured => assoc.first = Outcome

\* C14 (amended): the two compositions return the same value, and they leave
\* the same registry, closers, pipes and live State whenever that value is nil
C14_SameOutcomeWhenConfigured ==
    BothConfigured =>
        /\ assoc.first.ret = ret
        /\ ret = "nil" => assoc.first = Outcome

\* both compositions were configured without error from three stages that
\* each registered an entry, the last of them two
C14_Witness ==
    /\ BothConfigured
    /\ ret = "nil"
    /\ assoc.a = Node("flusher", <<>>)
    /\ assoc.b = Node("flusher", <<>>)
    /\ assoc.c = Node("Script", <<Node("flusher", <<>>), Node("flusher", <<>>)>>)
    /\ Len(pendingFlushes) = 4
    /\ Len(pipes) = 2

(***************************************************************************)
(* Bytes through the junctions (specification SpecData).  The flushers are *)
(*   echo     Echo(str): one Write of str to s.Stdout                      *)
(*   tee      Tee(ioutil.Discard): io.Copy through io.TeeReader, every     *)
(*            chunk read from s.Stdin is written to s.Stdout               *)
(*   discard  Discard(): io.Copy from s.Stdin to ioutil.Discard            *)
(* The bytes of one Write are a chunk, named after the entry whose Echo    *)
(* wrote it.  A Write on an io.PipeWriter holds the pipe until a Read has  *)
(* taken the chunk or an end is closed; a Read on an io.PipeReader blocks  *)
(* until there is a chunk or an end is closed.  The composition is a Line  *)
(* whose stages are flushers, or a Script or a Line of flushers; every     *)
(* Script and Line has at least one stage.  Each goroutine of FlushAll is  *)
(* scheduled by the Go runtime whenever it is not blocked.                 *)
(***************************************************************************)
DataFlushers == MaxFlushers + 1
DataPipes == MaxPipes + 1
DataStages == 3    \* stages of one Line
DataDepth == 2     \* compositions around a Line: a Line in a Script in a Line

DataMenu ==
    { Flusher("flushFunc", "echo"), Flusher("flushFunc", "tee"),
      Flusher("flushFunc", "discard") }

\* wire: st[i] is where entry i's Flush stands (init, read, have, writing) and
\* the chunk it holds; buf[j] is the chunk of the Write in progress on
\* junction j with the entry that writes; sent[j] and got[j] list the chunks
\* handed to Write and returned by Read on junction j, each with the entry
\* whose Write it was; eof is the set of
\* junctions whose reader has returned io.EOF; out[n] is OutputBuffer n
InitWire ==
    [st   |-> [i \in 1..DataFlushers |-> [ph |-> "init", hold |-> 0]],
     buf  |-> [j \in 1..DataPipes |-> <<>>],
     sent |-> [j \in 1..DataPipes |-> <<>>],
     got  |-> [j \in 1..DataPipes |-> <<>>],
     eof  |-> {},
     out  |-> [n \in 1..2 |-> <<>>]]

InitData ==
    /\ live = NewState(OutputBuffer(1), NilHandle)
    /\ pendingFlushes = <<>>
    /\ closers = <<>>
    /\ pipes = <<>>
    /\ stack = <<>>
    /\ ret = "none"
    /\ mainpc = "config"
    /\ result = NoErr
    /\ npipes = 1
    /\ g = <<>>
    /\ done = <<>>
    /\ col = ColInit
    /\ ch = <<>>
    /\ kills = <<>>
    /\ callers = NoCallers
    /\ envs = <<OsEnviron>>
    /\ wire = InitWire
    /\ assoc = NoAssoc

\* entry i is inside Flush and its flusher is one of behs
InFlush(i, behs) ==
    /\ mainpc = "collect"
    /\ g[i].pc = "flush"
    /\ pendingFlushes[i].f.beh \in behs

\* where the work of entry i stands: Echo starts with its string in hand,
\* the copying flushers start with a Read
Ph(i) ==
    IF wire.st[i].ph # "init" THEN wire.st[i].ph
    ELSE IF pendingFlushes[i].f.beh = "echo" THEN "have" ELSE "read"
Hold(i) == IF wire.st[i].ph = "init" THEN i ELSE wire.st[i].hold

\* the Write of entry w has returned nil: Echo returns nil from Flush, the
\* copy loop of Tee goes back to Read
AfterWrite(gs, st, w) ==
    IF pendingFlushes[w].f.beh = "echo"
    THEN <<[gs EXCEPT ![w].pc = "done", ![w].res = NoErr], st>>
    ELSE <<gs, [st EXCEPT ![w] = [ph |-> "read", hold |-> 0]]>>

\* s.Stdin.Read inside io.Copy of entry i: the empty strings.Reader is at end
\* of stream; on a pipe whose reader end is closed io.ErrClosedPipe; else the
\* chunk of the Write in progress, which thereby returns nil; else io.EOF once
\* the writer end is closed; else the Read blocks.  io.EOF ends Flush with
\* nil, another error ends it with that error.
DataRead(i) ==
    /\ InFlush(i, {"tee", "discard"})
    /\ Ph(i) = "read"
    /\ LET h == pendingFlushes[i].s.Stdin
           j == h.id
       IN  IF h.k # "PipeReader"
           THEN /\ g' = [g EXCEPT ![i].pc = "done", ![i].res = NoErr]
                /\ wire' = wire
           ELSE IF pipes[j].rclosed > 0
           THEN /\ g' = [g EXCEPT ![i].pc = "done", ![i].res = i]
                /\ wire' = wire
           ELSE IF wire.buf[j] # <<>>
           THEN LET chunk == wire.buf[j][1].chunk
                    w == wire.buf[j][1].by
                    mine == IF pendingFlushes[i].f.beh = "tee"
                            THEN [ph |-> "have", hold |-> chunk]
                            ELSE [ph |-> "read", hold |-> 0]
                    aw == AfterWrite(g, [wire.st EXCEPT ![i] = mine], w)
                IN  /\ g' = aw[1]
                    /\ wire' = [wire EXCEPT !.st = aw[2],
                                            !.buf[j] = <<>>,
                                            !.got[j] = Append(@, wire.buf[j][1])]
           ELSE /\ pipes[j].wclosed > 0
                /\ g' = [g EXCEPT ![i].pc = "done", ![i].res = NoErr]
                /\ wire' = [wire EXCEPT !.eof = @ \cup {j}]
    /\ UNCHANGED <<buildVars, mainpc, result, done, col, ch, kills, callers, envs, assoc>>

\* s.Stdout.Write(chunk) by Echo or by the TeeReader of entry i: an
\* OutputBuffer appends, ioutil.Discard drops; on a pipe with a closed end
\* io.ErrClosedPipe (Flush returns it); else the Write takes the pipe when no
\* other Write holds it and waits for a Read
DataWrite(i) ==
    /\ InFlush(i, {"echo", "tee"})
    /\ Ph(i) = "have"
    /\ LET h == pendingFlushes[i].s.Stdout
           j == h.id
       IN  IF h.k = "OutputBuffer"
           THEN /\ g' = AfterWrite(g, wire.st, i)[1]
                /\ wire' = [wire EXCEPT !.st = AfterWrite(g, wire.st, i)[2],
                                        !.out[j] = Append(@, Hold(i))]
           ELSE IF h.k # "PipeWriter"
           THEN /\ g' = AfterWrite(g, wire.st, i)[1]
                /\ wire' = [wire EXCEPT !.st = AfterWrite(g, wire.st, i)[2]]
           ELSE IF pipes[j].rclosed > 0 \/ pipes[j].wclosed > 0
           THEN /\ g' = [g EXCEPT ![i].pc = "done", ![i].res = i]
                /\ wire' = wire
           ELSE /\ wire.buf[j] = <<>>
                /\ g' = g
                /\ wire' = [wire EXCEPT !.st[i] = [ph |-> "writing", hold |-> Hold(i)],
                                        !.buf[j] = <<[chunk |-> Hold(i), by |-> i]>>,
                                        !.sent[j] = Append(@, [chunk |-> Hold(i), by |-> i])]
    /\ UNCHANGED <<buildVars, mainpc, result, done, col, ch, kills, callers, envs, assoc>>

\* the Write in progress of entry i finds an end of its pipe closed: it
\* returns io.ErrClosedPipe, the chunk is lost, Flush returns the error
DataWriteFail(i) ==
    /\ InFlush(i, {"echo", "tee"})
    /\ Ph(i) = "writing"
    /\ LET j == pendingFlushes[i].s.Stdout.id
       IN  /\ pipes[j].rclosed > 0 \/ pipes[j].wclosed > 0
           /\ wire' = [wire EXCEPT !.buf[j] = <<>>]
    /\ g' = [g EXCEPT ![i].pc = "done", ![i].res = i]
    /\ UNCHANGED <<buildVars, mainpc, result, done, col, ch, kills, callers, envs, assoc>>

ConfigureData ==
    \/ StageAddFlusher(DataMenu, DataFlushers)
    \/ (Len(stack) = 1 /\ ScriptEnter(DataPipes) /\ npipes' > npipes)
    \/ ScriptAfterStage
    \/ (Len(stack) <= DataDepth /\ LineEnter(DataPipes) /\ npipes' > npipes
          /\ npipes' <= npipes + DataStages)
    \/ LinePrep
    \/ LineAfterStage
    \/ LineInspect
    \/ LineAttach
    \/ LineCloseIn
    \/ LineCloseOut
    \/ RunAfterPipe

ExecuteData ==
    \/ FlushAllStart
    \/ \E i \in DOMAIN g : GoStartFlush(i)
    \/ \E i \in DOMAIN g : GoCloseNext(i)
    \/ \E i \in DOMAIN g : GoEndpointClose(i)
    \/ \E i \in DOMAIN g : GoRelease(i)
    \/ \E i \in DOMAIN g : GoSend(i)
    \/ ColRecv
    \/ ColKill
    \/ FlushAllReturn
    \/ \E i \in DOMAIN g : DataRead(i)
    \/ \E i \in DOMAIN g : DataWrite(i)
    \/ \E i \in DOMAIN g : DataWriteFail(i)

NextData == ConfigureData \/ ExecuteData

SpecData == InitData /\ [][NextData]_vars /\ WF_vars(ExecuteData)

(***************************************************************************)
(* C11: a junction delivers what was written, and end-of-stream comes      *)
(* after the writers.                                                      *)
(***************************************************************************)
\* no Flush has returned an error so far
NoFlusherFailed == \A i \in DOMAIN g : g[i].res = NoErr

\* entry i captured the writer of junction j as Stdout or Stderr
HoldsWriter(i, j) ==
    \/ pendingFlushes[i].s.Stdout = PipeWriter(j)
    \/ pendingFlushes[i].s.Stderr = PipeWriter(j)

\* C11: in a run where no flusher fails, on every junction the chunks
\* returned by Read are the chunks handed to Write, in write order (all of
\* them once FlushAll has returned, all but the Write in progress before),
\* and a Read returns io.EOF on a junction only after every flusher that
\* holds the junction's writer has returned from Flush.
C11_JunctionDeliversAll ==
    /\ (mainpc = "collect" /\ NoFlusherFailed) =>
          /\ \A j \in 1..Len(pipes) :
                wire.sent[j] = wire.got[j] \o wire.buf[j]
          /\ \A j \in wire.eof : \A i \in DOMAIN pendingFlushes :
                HoldsWriter(i, j) => Returned(i)
    /\ (mainpc = "returned" /\ result = NoErr) =>
          \A j \in 1..DataPipes : wire.got[j] = wire.sent[j] /\ wire.buf[j] = <<>>

\* FlushAll returned nil after a junction carried the chunks of two upstream
\* flushers to a reader that then saw io.EOF
C11_Witness ==
    /\ mainpc = "returned"
    /\ result = NoErr
    /\ \E j \in wire.eof :
          /\ Len(wire.got[j]) >= 2
          /\ wire.got[j][1].by # wire.got[j][2].by

(***************************************************************************)
(* C13: nested compositions run to the end.                                *)
(***************************************************************************)
\* some entry was registered inside a Script or Line that is a stage of the
\* outer Line
Nested == \E i \in DOMAIN pendingFlushes : pendingFlushes[i].depth >= 2

\* every junction's reader is the Stdin of an entry whose flusher reads it to
\* io.EOF
EveryJunctionRead ==
    \A j \in 1..Len(pipes) : \E i \in DOMAIN pendingFlushes :
        /\ pendingFlushes[i].s.Stdin = PipeReader(j)
        /\ pendingFlushes[i].f.beh \in {"tee", "discard"}

\* on every junction, the chunk of an entry of a later Script stage is never
\* read before the chunk of an entry of an earlier stage of that Script
StageOrder ==
    \A j \in 1..Len(pipes) : \A p1, p2 \in 1..Len(wire.got[j]) :
        p1 < p2 => wire.got[j][p2].by \notin pendingFlushes[wire.got[j][p1].by].after

\* entry i captured a junction reader as Stdin without the closer of that
\* reader: a Line that has returned left the reader of its last junction in
\* s.Stdin, and a later stage of the Script around that Line registered i
LeakedStdin(i) ==
    LET pf == pendingFlushes[i]
    IN  /\ pf.s.Stdin.k = "PipeReader"
        /\ \A x \in DOMAIN pf.c : closers[pf.c[x]].c # pf.s.Stdin

\* C13: in a nested composition in which every stage registers a flusher,
\* every junction's reader is the Stdin of a flusher that reads, and every
\* reading flusher reads to io.EOF, no Flush returns an error, FlushAll
\* returns nil in every interleaving, and the chunks of a nested Script's
\* stages are read downstream in stage order.
C13_NestedReturnsNilWhenRead ==
    /\ [](mainpc = "collect" /\ Nested =>
             /\ StageOrder
             /\ EveryJunctionRead => NoFlusherFailed)
    /\ ((mainpc = "flushall" /\ Nested) ~> (mainpc = "returned"))
    /\ ((mainpc = "flushall" /\ Nested /\ EveryJunctionRead)
           ~> (mainpc = "returned" /\ result = NoErr))

\* what the code does keep of C13: FlushAll returns in every interleaving,
\* the stage order holds, and when every junction is read and no entry
\* captured a reader that a Line left behind, no Flush returns an error and
\* FlushAll returns nil
C13_NestedReturnsNilUnlessLeaked ==
    /\ [](mainpc = "collect" /\ Nested =>
             /\ StageOrder
             /\ (EveryJunctionRead /\ \A i \in DOMAIN pendingFlushes : ~LeakedStdin(i))
                   => NoFlusherFailed)
    /\ ((mainpc = "flushall" /\ Nested) ~> (mainpc = "returned"))
    /\ ((/\ mainpc = "flushall"
         /\ Nested
         /\ EveryJunctionRead
         /\ \A i \in DOMAIN pendingFlushes : ~LeakedStdin(i))
           ~> (mainpc = "returned" /\ result = NoErr))

\* every entry whose Stdin is a junction reader reads to io.EOF and every
\* junction is read; the stage of a Script that follows a Line captured the
\* reader of the Line's last junction, its Flush found the reader closed and
\* returned the only error of the run; the collector has every result
C13_Witness ==
    /\ mainpc = "collect"
    /\ Nested
    /\ EveryJunctionRead
    /\ \A i \in DOMAIN pendingFlushes :
          pendingFlushes[i].s.Stdin.k = "PipeReader" =>
             pendingFlushes[i].f.beh \in {"tee", "discard"}
    /\ col.n = NumEntries
    /\ col.first # NoErr
    /\ \E i \in DOMAIN pendingFlushes :
          /\ LeakedStdin(i)
          /\ g[i].res # NoErr
          /\ \A k \in DOMAIN g : k # i => g[k].res = NoErr

(***************************************************************************)
(* C12: a downstream stage that never reads (specification SpecStall).     *)
(* The payload of Echo is here larger than the buffers between a junction  *)
(* and a process (TestLineTermination writes 256 KiB).  Beside Echo and    *)
(* Discard the menu has a flusher that returns nil without touching a      *)
(* stream, and Exec("true"): a program that exits with status 0 without    *)
(* reading its standard input and writes nothing.                          *)
(***************************************************************************)
StallMenu ==
    { Flusher("flushFunc", "echo"), Flusher("flushFunc", "nil"),
      Flusher("flushFunc", "discard"), Flusher("execFlusher", "true") }

\* the copy of cmd.Stdin to the process that os/exec runs for the execFlusher
\* of entry i (cmd.Stdin = s.Stdin): it reads a piece of the payload of the
\* Write in progress on the junction and writes it towards the process, which
\* never reads it; the Write stays in progress with the rest of the payload
DataExecCopy(i) ==
    /\ InFlush(i, {"true"})
    /\ Ph(i) = "read"
    /\ LET h == pendingFlushes[i].s.Stdin
           j == h.id
       IN  /\ h.k = "PipeReader"
           /\ pipes[j].rclosed = 0
           /\ wire.buf[j] # <<>>
           /\ wire' = [wire EXCEPT
                          !.st[i] = [ph |-> "fed", hold |-> wire.buf[j][1].chunk],
                          !.got[j] = Append(@, [chunk |-> wire.buf[j][1].chunk,
                                                by |-> wire.buf[j][1].by,
                                                part |-> TRUE])]
    /\ UNCHANGED <<buildVars, mainpc, result, g, done, col, ch, kills, callers, envs, assoc>>

\* cmd.Wait() in the Flush of entry i returns, once the process has exited and
\* the copy of cmd.Stdin has ended: the copy's Write of the piece it had read
\* failed (write |1: broken pipe), or its Read found the reader end closed, or
\* it reached the end of the stream.  Flush returns nil only if the copy ended
\* at the end of the stream and the process exited by itself; when Kill was
\* called on the process, it had exited already or it was killed
DataExecWait(i) ==
    /\ InFlush(i, {"true"})
    /\ LET h == pendingFlushes[i].s.Stdin
           j == h.id
           failed == IF h.k = "PipeReader"
                     THEN Ph(i) = "fed" \/ pipes[j].rclosed > 0
                     ELSE FALSE
           eof == IF h.k = "PipeReader"
                  THEN /\ Ph(i) # "fed"
                       /\ pipes[j].rclosed = 0
                       /\ wire.buf[j] = <<>>
                       /\ pipes[j].wclosed > 0
                  ELSE TRUE
       IN  /\ IF failed THEN TRUE ELSE eof
           /\ \E res \in {NoErr, i} :
                 /\ IF failed
                    THEN res = i
                    ELSE IF g[i].proc = "running" THEN res = NoErr ELSE TRUE
                 /\ g' = [g EXCEPT ![i].pc = "done", ![i].res = res,
                                   ![i].proc = "exited"]
    /\ UNCHANGED <<buildVars, mainpc, result, done, col, ch, kills, auxVars>>

ConfigureStall ==
    \/ StageAddFlusher(StallMenu, MaxFlushers)
    \/ (Len(stack) = 1 /\ ScriptEnter(MaxPipes) /\ npipes' > npipes)
    \/ ScriptAfterStage
    \/ (Len(stack) <= 1 /\ LineEnter(MaxPipes) /\ npipes' > npipes)
    \/ LinePrep
    \/ LineAfterStage
    \/ LineInspect
    \/ LineAttach
    \/ LineCloseIn
    \/ LineCloseOut
    \/ RunAfterPipe

ExecuteStall ==
    \/ ExecuteData
    \/ \E i \in DOMAIN g : GoFlushReturn(i)
    \/ \E i \in DOMAIN g : DataExecCopy(i)
    \/ \E i \in DOMAIN g : DataExecWait(i)
    \/ ColKillRecv

NextStall == ConfigureStall \/ ExecuteStall

SpecStall == InitData /\ [][NextStall]_vars /\ WF_vars(ExecuteStall)

\* the registry of Line(W, R) under Output: W is an Echo whose Stdout is the
\* writer of junction j; R has the reader of junction j as its Stdin and the
\* captured output as its Stdout, and returns without consuming its Stdin: a
\* flusher that returns nil at once, or Exec("true") as in TestLineTermination
LineWR(j) ==
    /\ Len(pendingFlushes) = 2
    /\ pendingFlushes[1].f.beh = "echo"
    /\ pendingFlushes[1].s.Stdout = PipeWriter(j)
    /\ pendingFlushes[2].f.beh \in {"nil", "true"}
    /\ pendingFlushes[2].s.Stdin = PipeReader(j)
    /\ pendingFlushes[2].s.Stdout = OutputBuffer(1)

\* C12: for Line(W, R) where W writes a payload and R returns without
\* consuming its Stdin, W's Write never succeeds and fails only once R has
\* returned and the junction reader is closed, at most a piece of the payload
\* is taken from the junction (by the copy to R's process), nothing reaches
\* the captured output, and in every interleaving FlushAll returns, with a
\* non-nil error.
C12_NonReaderFailsWriter ==
    /\ [](\A j \in 1..Len(pipes) : (mainpc = "collect" /\ LineWR(j)) =>
             /\ Returned(1) => g[1].res # NoErr
             /\ g[1].res # NoErr => Returned(2) /\ pipes[j].rclosed > 0
             /\ Len(wire.got[j]) <= 1
             /\ pendingFlushes[2].f.beh = "nil" => wire.got[j] = <<>>
             /\ wire.out[1] = <<>>)
    /\ ((mainpc = "flushall" /\ \E j \in 1..Len(pipes) : LineWR(j))
           ~> (mainpc = "returned" /\ result # NoErr /\ wire.out[1] = <<>>))

\* TestLineTermination: R is Exec("true"); the copy to its process took a
\* piece of W's payload, R's Flush returned the error of that copy and its
\* done() closed the reader, W's Write in progress returned the error, and
\* the error FlushAll keeps is R's
C12_Witness ==
    /\ mainpc = "collect"
    /\ LineWR(1)
    /\ pendingFlushes[2].f.beh = "true"
    /\ wire.got[1] # <<>>
    /\ g[1].res # NoErr
    /\ col.n = NumEntries
    /\ col.first = 2

(***************************************************************************)
(* C22, C23: a failed flusher of an earlier Script stage.                  *)
(***************************************************************************)
\* entry i's Flush has been called
FlushStarted(i) == g[i].pc # "wait"

\* C22: no flusher of a later stage of a Script starts Flush once a flusher
\* of an earlier stage of that Script has returned an error.
C22_LaterStageNeverStarts ==
    mainpc = "collect" =>
        \A i \in DOMAIN g :
            FlushStarted(i) =>
                \A k \in pendingFlushes[i].after : g[k].res = NoErr

\* C23: the error FlushAll keeps is never the error of a flusher of a later
\* stage of a Script of which an earlier stage's flusher has failed.
C23_EarlierErrorReturned ==
    (mainpc = "collect" /\ col.first # NoErr) =>
        \A k \in pendingFlushes[col.first].after : g[k].res = NoErr

\* what the code does keep: a flusher of a later stage starts Flush only
\* after every flusher of the earlier stages has returned, with nil or not
C22_LaterStageStartsAfterReturn ==
    mainpc = "collect" =>
        \A i \in DOMAIN g :
            FlushStarted(i) => \A k \in pendingFlushes[i].after : Returned(k)

\* a flusher of a later stage is inside Flush although a flusher of an
\* earlier stage of its Script returned an error
C22_Witness ==
    /\ mainpc = "collect"
    /\ \E i \in DOMAIN g :
          /\ g[i].pc = "flush"
          /\ \E k \in pendingFlushes[i].after : g[k].res # NoErr

\* what the code does keep: the error FlushAll keeps is the error some
\* entry's Flush has returned
C23_KeptErrorWasReturned ==
    (mainpc = "collect" /\ col.first # NoErr) =>
        /\ col.first \in DOMAIN g
        /\ g[col.first].res = col.first

\* the collector kept the error of a later stage's flusher although an
\* earlier stage's flusher had failed before that flusher started
C23_Witness ==
    /\ mainpc = "collect"
    /\ col.first # NoErr
    /\ \E k \in pendingFlushes[col.first].after : g[k].res # NoErr

(***************************************************************************)
(* C24: the streams after a Line.                                          *)
(***************************************************************************)
\* C24: whenever a Line returns, the State's Stdin, Stdout and Stderr are
\* the handles the State had when the Line was called.
C24_LineRestoresStreams ==
    [][(mainpc = "config" /\ Len(stack') < Len(stack) /\ Top.kind = "Line") =>
          /\ live'.Stdin = Top.entry.Stdin
          /\ live'.Stdout = Top.entry.Stdout
          /\ live'.Stderr = Top.entry.Stderr]_vars

\* a flusher that is itself a stage of a Script, registered after a Line of
\* that Script, captured a junction reader of the Line as its Stdin, although
\* the Script was called with the empty reader
C24_Witness ==
    /\ mainpc = "config"
    /\ stack # <<>>
    /\ Top.kind = "Script"
    /\ Top.entry.Stdin = EmptyReader
    /\ \E i \in Top.reg[Top.i] :
          /\ pendingFlushes[i].depth = Len(stack)
          /\ pendingFlushes[i].s.Stdin.k = "PipeReader"

(***************************************************************************)
(* One Flusher on its own (specification SpecKill): Flush is called at     *)
(* most once, by a goroutine that may also never get to call it, and Kill  *)
(* is called by up to MaxKills callers at any moment before, during or     *)
(* after Flush.  A call of Kill that can go on does go on, and so does a   *)
(* Flush that has started; nothing obliges Flush to start.                 *)
(***************************************************************************)
MaxKills == 3

KillFlushers ==
    AnyFlushers \cup { Flusher("execFlusher", "exit"), Flusher("execFlusher", "hang") }

InitKill ==
    /\ live = NewState(OutputBuffer(1), NilHandle)
    /\ closers = <<>>
    /\ pipes = <<>>
    /\ stack = <<>>
    /\ envs = <<OsEnviron, OsEnviron>>
    /\ \E f \in KillFlushers :
          pendingFlushes = <<[s |-> [live EXCEPT !.Env = [a |-> 2, n |-> 1]],
                              f |-> f, c |-> <<>>, wg |-> 0, wf |-> <<>>,
                              after |-> {}, at |-> Shown(live, envs), up |-> {},
                              depth |-> 0]>>
    /\ ret = "none"
    /\ mainpc = "collect"
    /\ result = NoErr
    /\ npipes = 0
    /\ g = <<[pc |-> "wait", res |-> NoErr, ci |-> 1, wi |-> 1, proc |-> "none"]>>
    /\ done = <<>>
    /\ col = ColInit
    /\ ch = <<<<>>>>
    /\ kills = <<0>>
    /\ \E m \in 1..MaxKills :
          callers = [n |-> 0, call |-> [k \in 1..m |-> [pc |-> "call", ord |-> 0]]]
    /\ wire = NoWire
    /\ assoc = NoAssoc

\* caller k calls f.Kill(): flushFunc.Kill is empty and returns; execFlusher.Kill
\* goes on to receive from f.ch.  ord is the order of the calls.
KillCall(k) ==
    /\ callers.call[k].pc = "call"
    /\ kills' = [kills EXCEPT ![1] = @ + 1]
    /\ callers' = [callers EXCEPT
                     !.n = @ + 1,
                     !.call[k].ord = callers.n + 1,
                     !.call[k].pc = IF pendingFlushes[1].f.kind = "execFlusher"
                                    THEN "recv" ELSE "returned"]
    /\ UNCHANGED <<buildVars, mainpc, result, g, done, col, ch, envs, ghostVars>>

\* p := <-f.ch in caller k's Kill: whichever caller executes the receive
\* while the channel holds the process takes it; if p != nil { p.Kill() };
\* Kill returns
KillRecv(k) ==
    /\ callers.call[k].pc = "recv"
    /\ ch[1] # <<>>
    /\ ch' = [ch EXCEPT ![1] = Tail(@)]
    /\ IF Head(ch[1]) = "running" /\ g[1].proc = "running"
       THEN g' = [g EXCEPT ![1].proc = KillOutcome(1)]
       ELSE UNCHANGED g
    /\ callers' = [callers EXCEPT !.call[k].pc = "returned"]
    /\ UNCHANGED <<buildVars, mainpc, result, done, col, kills, envs, ghostVars>>

KillProgress ==
    \/ GoFlushReturn(1)
    \/ \E k \in DOMAIN callers.call : KillRecv(k)

NextKill ==
    \/ GoStartFlush(1)
    \/ \E k \in DOMAIN callers.call : KillCall(k)
    \/ KillProgress

SpecKill == InitKill /\ [][NextKill]_vars /\ WF_vars(KillProgress)

\* the k-th caller's call of Kill, if there is a k-th caller
KillOf(k) ==
    IF k \in DOMAIN callers.call THEN callers.call[k]
    ELSE [pc |-> "call", ord |-> 0]

\* C26: a call of execFlusher.Kill returns, also when it is made before
\* Flush has started the process and when Flush is never called
\* (stated for the first call made on the flusher).
C26_KillReturns ==
    \A k \in 1..MaxKills :
        (KillOf(k).ord = 1) ~> (KillOf(k).pc = "returned")

\* the first Kill call on an execFlusher stands in its receive and Flush has
\* not been called
C26_Witness ==
    /\ g[1].pc = "wait"
    /\ \E k \in DOMAIN callers.call :
          callers.call[k].pc = "recv" /\ callers.call[k].ord = 1

\* C27: a Kill call made once Flush has been called returns, whether it is
\* the first call on the flusher or a later one.
C27_EveryKillReturns ==
    \A k \in 1..MaxKills :
        (KillOf(k).ord > 0 /\ g[1].pc # "wait") ~> (KillOf(k).pc = "returned")

\* Flush has returned, the first Kill call has returned, and a second Kill
\* call stands in its receive on the empty channel
C27_Witness ==
    /\ g[1].pc = "done"
    /\ ch[1] = <<>>
    /\ \E k1, k2 \in DOMAIN callers.call :
          /\ callers.call[k1].ord = 1
          /\ callers.call[k1].pc = "returned"
          /\ callers.call[k2].ord = 2
          /\ callers.call[k2].pc = "recv"

(***************************************************************************)
(* Functions run after a task (specification SpecTasks).  In the           *)
(* task-based revision (lines 1-430 of part_001) a Pipe function registers *)
(* a task with s.Task(f) and, with s.TaskDone(d), functions to be run once *)
(* the task has finished: releases of what the task used, such as the      *)
(* closing of streams.  RunTasks runs every task in a goroutine of its own *)
(* and sends firstErr(task.f(&task.s), task.done()) to the collector.      *)
(* Here pendingFlushes is s.tasks: for each task the behaviour of f, which *)
(* returns nil or an error, and what each function given to TaskDone       *)
(* returns, in the order of the calls of TaskDone.  Line of this revision  *)
(* registers a function that closes the ends of its junctions and returns  *)
(* nil; a function that closes a file returns what Close returned.  In the *)
(* other two revisions the only closers registered with an entry are those *)
(* of Line, around the ends of an io.Pipe, whose Close returns nil.        *)
(* s.TaskKill(k) registers a function that RunTasks calls on the first     *)
(* error: one that returns at once, or, registered by Exec together with   *)
(* its task, one that receives the process from the channel the task sends *)
(* it on and kills it.  For each task, kill lists the functions given to   *)
(* TaskKill in the order of the calls: "ret" returns at once, "recv" is    *)
(* the function of Exec.  The program of an Exec is any program: cmd.Wait  *)
(* may return nil or an error.                                             *)
(***************************************************************************)
MaxTasks == 2       \* tasks registered before RunTasks
MaxDone == 2        \* functions given to TaskDone for one task
MaxKillFuncs == 1   \* functions given to TaskKill for one task, beside Exec's

\* the error that the k-th function run after task i returns when it fails
DoneErr(i, k) == 10 * i + k

\* firstErr(err1, err2)
firstErr(err1, err2) == IF err1 # NoErr THEN err1 ELSE err2

\* task.done() after n calls of TaskDone: chain(chain(dummy, d1), d2) calls
\* the functions in the order they were given and returns the first error;
\* rets lists what they returned
RECURSIVE chain(_, _)
chain(rets, n) ==
    IF n = 0 THEN NoErr ELSE firstErr(chain(rets, n - 1), rets[n])

InitTasks ==
    /\ live = NewState(OutputBuffer(1), NilHandle)
    /\ pendingFlushes = <<>>
    /\ closers = <<>>
    /\ pipes = <<>>
    /\ stack = <<>>
    /\ ret = "none"
    /\ mainpc = "config"
    /\ result = NoErr
    /\ npipes = 0
    /\ g = <<>>
    /\ done = <<>>
    /\ col = ColInit
    /\ ch = <<>>
    /\ kills = <<>>
    /\ callers = NoCallers
    /\ envs = <<OsEnviron>>
    /\ wire = NoWire
    /\ assoc = NoAssoc

\* s.Task(f): t := &task{*s, f, dummy, dummy}; s.tasks = append(s.tasks, t)
StateTask ==
    /\ mainpc = "config"
    /\ Len(pendingFlushes) < MaxTasks
    /\ \E beh \in {"nil", "err"} :
          pendingFlushes' =
             Append(pendingFlushes, [f |-> beh, done |-> <<>>, kill |-> <<>>])
    /\ UNCHANGED <<live, closers, pipes, stack, ret, npipes, mainpc, result>>
    /\ UNCHANGED <<runVars, auxVars>>

\* Exec(name, args...)(s): ch := make(chan *os.Process, 1); s.Task(...) with
\* the function that starts the command, sends cmd.Process and waits;
\* s.TaskKill(...) with the function that receives from ch and kills
StageExecTask ==
    /\ mainpc = "config"
    /\ Len(pendingFlushes) < MaxTasks
    /\ pendingFlushes' =
          Append(pendingFlushes, [f |-> "exec", done |-> <<>>, kill |-> <<"recv">>])
    /\ UNCHANGED <<live, closers, pipes, stack, ret, npipes, mainpc, result>>
    /\ UNCHANGED <<runVars, auxVars>>

\* s.TaskDone(d): task := s.tasks[len(s.tasks)-1];
\* task.done = chain(task.done, d)
StateTaskDone ==
    /\ mainpc = "config"
    /\ pendingFlushes # <<>>
    /\ LET n == Len(pendingFlushes)
           k == Len(pendingFlushes[n].done) + 1
       IN  /\ k <= MaxDone
           /\ \E r \in {NoErr, DoneErr(n, k)} :
                 pendingFlushes' = [pendingFlushes EXCEPT ![n].done = Append(@, r)]
    /\ UNCHANGED <<live, closers, pipes, stack, ret, npipes, mainpc, result>>
    /\ UNCHANGED <<runVars, auxVars>>

\* s.TaskKill(k) with a function that returns at once:
\* task := s.tasks[len(s.tasks)-1]; task.kill = chain(task.kill, k)
StateTaskKill ==
    /\ mainpc = "config"
    /\ pendingFlushes # <<>>
    /\ LET n == Len(pendingFlushes)
       IN  /\ Len(SelectSeq(pendingFlushes[n].kill, LAMBDA k : k = "ret")) < MaxKillFuncs
           /\ pendingFlushes' = [pendingFlushes EXCEPT ![n].kill = Append(@, "ret")]
    /\ UNCHANGED <<live, closers, pipes, stack, ret, npipes, mainpc, result>>
    /\ UNCHANGED <<runVars, auxVars>>

\* s.RunTasks(): done := make(chan error, len(s.tasks)) and one goroutine
\* for each task
RunTasksStart ==
    /\ mainpc = "config"
    /\ mainpc' = "collect"
    /\ g' = [i \in DOMAIN pendingFlushes |->
                [pc |-> "f", res |-> NoErr, rets |-> <<>>, sent |-> NoErr]]
    /\ kills' = [i \in DOMAIN pendingFlushes |-> 0]
    /\ ch' = [i \in DOMAIN pendingFlushes |-> <<>>]
    /\ col' = [pc |-> "recv", n |-> 0, first |-> NoErr, ki |-> 0, kf |-> 0]
    /\ UNCHANGED <<buildVars, result, done, auxVars>>

\* the function of Exec up to its send: err := cmd.Start();
\* ch <- cmd.Process; if err != nil { return err }
TaskStart(i) ==
    /\ mainpc = "collect"
    /\ g[i].pc = "f"
    /\ pendingFlushes[i].f = "exec"
    /\ \E o \in StartOutcomes("any") :
          /\ ch' = [ch EXCEPT ![i] = Append(@, o)]
          /\ g' = IF o = "failed"
                  THEN [g EXCEPT ![i].pc = "done", ![i].res = i]
                  ELSE [g EXCEPT ![i].pc = "wait"]
    /\ UNCHANGED <<buildVars, mainpc, result, done, col, kills, auxVars>>

\* task.f(&task.s) returns; for Exec, cmd.Wait() has returned
TaskRun(i) ==
    /\ mainpc = "collect"
    /\ \/ /\ g[i].pc = "f"
          /\ pendingFlushes[i].f # "exec"
          /\ g' = [g EXCEPT ![i].pc = "done",
                            ![i].res = IF pendingFlushes[i].f = "err" THEN i ELSE NoErr]
       \/ /\ g[i].pc = "wait"
          /\ \E res \in {NoErr, i} : g' = [g EXCEPT ![i].pc = "done", ![i].res = res]
    /\ UNCHANGED <<buildVars, mainpc, result, done, col, ch, kills, auxVars>>

\* task.done(): the next function of the chain is called and returns
TaskRunDone(i) ==
    /\ mainpc = "collect"
    /\ g[i].pc = "done"
    /\ Len(g[i].rets) < Len(pendingFlushes[i].done)
    /\ g' = [g EXCEPT ![i].rets =
                 Append(@, pendingFlushes[i].done[Len(g[i].rets) + 1])]
    /\ UNCHANGED <<buildVars, mainpc, result, done, col, ch, kills, auxVars>>

\* a goroutine that sends the result of the task alone
TaskSendFlushOnly(i) ==
    /\ mainpc = "collect"
    /\ g[i].pc = "done"
    /\ Len(g[i].rets) = Len(pendingFlushes[i].done)
    /\ done' = Append(done, g[i].res)
    /\ g' = [g EXCEPT ![i].pc = "end", ![i].sent = g[i].res]
    /\ UNCHANGED <<buildVars, mainpc, result, col, ch, kills, auxVars>>

\* done <- firstErr(task.f(&task.s), task.done())
TaskSend(i) ==
    /\ mainpc = "collect"
    /\ g[i].pc = "done"
    /\ Len(g[i].rets) = Len(pendingFlushes[i].done)
    /\ LET err == firstErr(g[i].res, chain(g[i].rets, Len(g[i].rets)))
       IN  /\ done' = Append(done, err)
           /\ g' = [g EXCEPT ![i].pc = "end", ![i].sent = err]
    /\ UNCHANGED <<buildVars, mainpc, result, col, ch, kills, auxVars>>

\* the functions registered with TaskKill, as <<task, place in its chain>>, that
\* the kill loop has still to call when it stands before function k of task i
KillsFrom(i, k) ==
    { pos \in (DOMAIN pendingFlushes) \X (1..(MaxKillFuncs + 1)) :
         /\ pos[2] <= Len(pendingFlushes[pos[1]].kill)
         /\ pos[1] > i \/ (pos[1] = i /\ pos[2] >= k) }

\* the collector of RunTasks goes on in the kill loop before function k of
\* task i: it stands at the next registered function; the kill of a task
\* without one is dummy and returns at once; past the last task the loop has
\* ended and the collector receives again.  kills[t] counts the calls of
\* s.tasks[t].kill() that have returned
KillLoopAt(c, i, k) ==
    IF KillsFrom(i, k) = {}
    THEN /\ col' = [c EXCEPT !.pc = "recv", !.ki = 0, !.kf = 0]
         /\ kills' = [t \in DOMAIN kills |-> 1]
    ELSE LET pos == CHOOSE x \in KillsFrom(i, k) :
                        \A y \in KillsFrom(i, k) :
                           x[1] < y[1] \/ (x[1] = y[1] /\ x[2] <= y[2])
         IN  /\ col' = [c EXCEPT !.pc = "kill", !.ki = pos[1], !.kf = pos[2]]
             /\ kills' = [t \in DOMAIN kills |-> IF t < pos[1] THEN 1 ELSE 0]

\* err := <-done; if err != nil && first == nil { first = err; and the loop
\* over s.tasks[i].kill() begins }
RunTasksRecv ==
    /\ mainpc = "collect"
    /\ col.pc = "recv"
    /\ col.n < NumEntries
    /\ done # <<>>
    /\ done' = Tail(done)
    /\ IF Head(done) # NoErr /\ col.first = NoErr
       THEN KillLoopAt([col EXCEPT !.n = @ + 1, !.first = Head(done)], 1, 1)
       ELSE /\ col' = [col EXCEPT !.n = @ + 1]
            /\ kills' = kills
    /\ UNCHANGED <<buildVars, mainpc, result, g, ch, auxVars>>

\* s.tasks[i].kill(): the next function of the chain is called and returns.
\* The function of Exec, `if p, ok := <-ch; ok { p.Kill() }`, blocks until the
\* task has sent; ok is true for whatever was sent, so p.Kill() is called on
\* the process, or on the nil handle sent after a failed cmd.Start, where it
\* dereferences nil or returns an error, as os.Process.Kill of the build does
RunTasksKill ==
    /\ mainpc = "collect"
    /\ col.pc = "kill"
    /\ IF pendingFlushes[col.ki].kill[col.kf] = "recv"
       THEN /\ ch[col.ki] # <<>>
            /\ ch' = [ch EXCEPT ![col.ki] = Tail(@)]
            /\ IF Head(ch[col.ki]) = "failed"
               THEN \/ /\ mainpc' = "panic"
                       /\ UNCHANGED <<col, kills>>
                    \/ /\ mainpc' = mainpc
                       /\ KillLoopAt(col, col.ki, col.kf + 1)
               ELSE /\ mainpc' = mainpc
                    /\ KillLoopAt(col, col.ki, col.kf + 1)
       ELSE /\ ch' = ch
            /\ mainpc' = mainpc
            /\ KillLoopAt(col, col.ki, col.kf + 1)
    /\ UNCHANGED <<buildVars, result, g, done, auxVars>>

\* s.tasks = nil; return first
RunTasksReturn ==
    /\ mainpc = "collect"
    /\ col.pc = "recv"
    /\ col.n = NumEntries
    /\ pendingFlushes' = <<>>
    /\ result' = col.first
    /\ mainpc' = "returned"
    /\ UNCHANGED <<live, closers, pipes, stack, ret, npipes>>
    /\ UNCHANGED <<runVars, auxVars>>

NextTasks ==
    \/ StateTask
    \/ StageExecTask
    \/ StateTaskDone
    \/ StateTaskKill
    \/ RunTasksStart
    \/ \E i \in DOMAIN g : TaskStart(i)
    \/ \E i \in DOMAIN g : TaskRun(i)
    \/ \E i \in DOMAIN g : TaskRunDone(i)
    \/ \E i \in DOMAIN g : TaskSend(i)
    \/ RunTasksRecv
    \/ RunTasksKill
    \/ RunTasksReturn

SpecTasks == InitTasks /\ [][NextTasks]_vars

\* the functions run after task i have all returned and one returned an error
SomeCloseFailed(i) == \E k \in DOMAIN g[i].rets : g[i].rets[k] # NoErr

\* the first error among the results of the functions run after task i
FirstCloseErr(i) ==
    g[i].rets[CHOOSE k \in DOMAIN g[i].rets :
                 /\ g[i].rets[k] # NoErr
                 /\ \A x \in 1..(k - 1) : g[i].rets[x] = NoErr]

PgJoin(d, dir) == Join(<<d, dir>>)

\* ChDir(dir): s.Dir = filepath.Join(s.Dir, dir)
PgStageChDir(dirs) ==
    /\ CallSite
    /\ \E dir \in dirs : live' = [live EXCEPT !.Dir = PgJoin(live.Dir, dir)]
    /\ ret' = "nil"
    /\ UNCHANGED <<pendingFlushes, closers, pipes, stack, npipes, mainpc, result>>
    /\ UNCHANGED <<runVars, auxVars>>

\* Script(p...)(s) up to its first stage: env := append([]string(nil), s.Env...);
\* with no stages s.Env = env and it returns nil at once
PgScriptEnter(maxPipes) ==
    /\ CallSite
    /\ \E n \in 0..(maxPipes - npipes) :
          /\ npipes' = npipes + n
          /\ IF n = 0
             THEN /\ ret' = "nil"
                  /\ stack' = stack
                  /\ live' = [live EXCEPT !.Env = CopyEnvSlice(envs, live.Env)]
             ELSE /\ ret' = "none"
                  /\ stack' = Append(stack, [Frame("Script", n) EXCEPT
                                               !.env = CopyEnvSlice(envs, live.Env)])
                  /\ live' = live
    /\ envs' = CopyEnvHeap(envs, live.Env)
    /\ UNCHANGED <<pendingFlushes, closers, pipes, mainpc, result>>
    /\ UNCHANGED <<runVars, callers, ghostVars>>

\* if err := p(s); err != nil { return err }; otherwise s.FlushAll() is called
PgScriptAfterStage ==
    /\ mainpc = "config"
    /\ stack # <<>>
    /\ Top.kind = "Script"
    /\ Top.pc = "call"
    /\ ret # "none"
    /\ IF IsErr(ret)
       THEN /\ stack' = Pop
            /\ ret' = ret
            /\ mainpc' = mainpc
       ELSE /\ stack' = SetTop([Top EXCEPT !.pc = "flush"])
            /\ ret' = "none"
            /\ mainpc' = "flushall"
    /\ UNCHANGED <<live, pendingFlushes, closers, pipes, npipes, result>>
    /\ UNCHANGED <<runVars, auxVars>>

\* the error a FlushAll called by a Script hands to it
FlushErr == "ferr"

\* the stack once a FlushAll has returned: every open composition counts the
\* entries of its stages whose Flush was called, and the registry is empty
PgNoteRan ==
    [d \in 1..Len(stack) |->
        [stack[d] EXCEPT
           !.ran = @ + Cardinality({ i \in UNION { stack[d].reg[k] : k \in 1..stack[d].n } :
                                       i \in DOMAIN g /\ Started(i) }),
           !.reg = [k \in 1..stack[d].n |-> {}]]]

\* pf.closeAll(): the next c.Close() of the entry's closers
PgGoCloseNext(i) ==
    /\ mainpc = "collect"
    /\ g[i].pc = "done"
    /\ g[i].ci <= Len(pendingFlushes[i].c)
    /\ pipes' = EndpointClose(pipes, pendingFlushes[i].c[g[i].ci])
    /\ g' = [g EXCEPT ![i].ci = @ + 1]
    /\ UNCHANGED <<live, pendingFlushes, closers, stack, ret, npipes>>
    /\ UNCHANGED <<mainpc, result, done, col, ch, kills, auxVars>>

\* execFlusher.Kill: if p, ok := <-f.ch; ok { p.Kill() }.  The channel is never
\* closed, so ok is true for whatever Flush sent: p.Kill() is called on the
\* process, or on the nil handle that Flush sent when cmd.Start failed; that
\* call dereferences nil or returns an error, as os.Process.Kill of the build
\* does
PgColKillRecv ==
    /\ mainpc = "collect"
    /\ col.pc = "killrecv"
    /\ ch[col.ki] # <<>>
    /\ ch' = [ch EXCEPT ![col.ki] = Tail(@)]
    /\ LET next == IF col.ki = NumEntries
                   THEN [col EXCEPT !.pc = "recv", !.ki = 0]
                   ELSE [col EXCEPT !.pc = "kill", !.ki = @ + 1]
       IN  IF Head(ch[col.ki]) = "failed"
           THEN /\ g' = [g EXCEPT ![col.ki].proc = "nilkill"]
                /\ \/ mainpc' = "panic" /\ col' = col
                   \/ mainpc' = mainpc /\ col' = next
           ELSE /\ g' = IF g[col.ki].proc = "running"
                        THEN [g EXCEPT ![col.ki].proc = KillOutcome(col.ki)]
                        ELSE g
                /\ mainpc' = mainpc
                /\ col' = next
    /\ UNCHANGED <<buildVars, result, done, kills, auxVars>>

\* every result was received: s.pendingFlushes = nil; return first, to the
\* runner or to the Script that called FlushAll
PgFlushAllReturn ==
    /\ mainpc = "collect"
    /\ col.pc = "recv"
    /\ col.n = NumEntries
    /\ pendingFlushes' = <<>>
    /\ IF stack = <<>>
       THEN /\ mainpc' = "returned"
            /\ result' = col.first
            /\ col' = [col EXCEPT !.pc = "returned"]
            /\ UNCHANGED <<stack, ret, g, done, ch, kills>>
       ELSE /\ mainpc' = "config"
            /\ ret' = IF col.first = NoErr THEN "nil" ELSE FlushErr
            /\ stack' = [PgNoteRan EXCEPT ![Len(stack)].pc = "flushed"]
            /\ g' = <<>>
            /\ done' = <<>>
            /\ ch' = <<>>
            /\ kills' = <<>>
            /\ col' = ColInit
            /\ UNCHANGED result
    /\ UNCHANGED <<live, closers, pipes, npipes, auxVars>>

\* if err := s.FlushAll(); err != nil { return err }; after the last stage
\* s.Env = env; return nil
PgScriptAfterFlush ==
    /\ mainpc = "config"
    /\ stack # <<>>
    /\ Top.kind = "Script"
    /\ Top.pc = "flushed"
    /\ IF IsErr(ret)
       THEN /\ stack' = Pop
            /\ ret' = ret
            /\ live' = live
       ELSE IF Top.i < Top.n
       THEN /\ stack' = SetTop([Top EXCEPT !.i = @ + 1, !.pc = "call"])
            /\ ret' = "none"
            /\ live' = live
       ELSE /\ stack' = Pop
            /\ ret' = "nil"
            /\ live' = [live EXCEPT !.Env = Top.env]
    /\ UNCHANGED <<pendingFlushes, closers, pipes, npipes, mainpc, result>>
    /\ UNCHANGED <<runVars, auxVars>>

\* Line(p...)(s) of src/pipe.go up to its first stage: end, endStdout and the
\* nil r and w; with no stages it returns nil at once
PgLineEnter(maxPipes) ==
    /\ CallSite
    /\ \E n \in 0..(maxPipes - npipes) :
          /\ npipes' = npipes + n
          /\ IF n = 0
             THEN /\ ret' = "nil"
                  /\ stack' = stack
             ELSE /\ ret' = "none"
                  /\ stack' = Append(stack, [Frame("Line", n) EXCEPT
                                               !.pc = "prep",
                                               !.closeIn = NilHandle,
                                               !.closeOut = NilHandle])
    /\ UNCHANGED <<live, pendingFlushes, closers, pipes, mainpc, result>>
    /\ UNCHANGED <<runVars, auxVars>>

\* head of the loop body for stage i: closeIn := r; the pipe to the next stage
\* (none for the last stage); s.Stdout; closeOut := w; oldLen
PgLinePrep ==
    /\ mainpc = "config"
    /\ stack # <<>>
    /\ Top.kind = "Line"
    /\ Top.pc = "prep"
    /\ LET j == Len(pipes) + 1
       IN  IF Top.i = Top.n
           THEN /\ pipes' = pipes
                /\ live' = [live EXCEPT !.Stdout = Top.endStdout]
                /\ stack' = SetTop([Top EXCEPT !.pc = "call", !.closeIn = Top.r,
                                               !.closeOut = NilHandle,
                                               !.r = NilHandle, !.w = NilHandle,
                                               !.oldLen = Len(pendingFlushes)])
           ELSE /\ pipes' = Append(pipes, [rclosed |-> 0, wclosed |-> 0])
                /\ live' = [live EXCEPT !.Stdout = PipeWriter(j)]
                /\ stack' = SetTop([Top EXCEPT !.pc = "call", !.closeIn = Top.r,
                                               !.closeOut = PipeWriter(j),
                                               !.r = PipeReader(j), !.w = PipeWriter(j),
                                               !.junc = Append(@, j),
                                               !.oldLen = Len(pendingFlushes)])
    /\ UNCHANGED <<pendingFlushes, closers, ret, npipes, mainpc, result>>
    /\ UNCHANGED <<runVars, auxVars>>

\* the entries (counted from 1) that the first loop hands closeIn to: for fi
\* from oldLen to newLen, entry fi-1 (counted from 0) when fi == newLen or
\* pendingFlushes[fi].s.Stdin != closeIn
PgCloseInAt(pfs, oldLen, newLen, closeIn) ==
    { fi \in oldLen..newLen : fi = newLen \/ pfs[fi + 1].s.Stdin # closeIn }

\* the entries (counted from 1) that the second loop hands closeOut to: for fi
\* from newLen-1 down to oldLen, entry fi (counted from 0) when fi == oldLen
\* or its Stdout or Stderr is closeOut
PgCloseOutAt(pfs, oldLen, newLen, closeOut) ==
    { e \in (oldLen + 1)..newLen :
        e = oldLen + 1 \/ pfs[e].s.Stdout = closeOut \/ pfs[e].s.Stderr = closeOut }

\* pf.closeWhenDone(c) for the entries both loops choose
PgAttach(pfs, oldLen, newLen, closeIn, closeOut) ==
    [e \in 1..Len(pfs) |->
        [pfs[e] EXCEPT !.c =
            @ \o (IF closeIn # NilHandle /\ e \in PgCloseInAt(pfs, oldLen, newLen, closeIn)
                  THEN <<closeIn>> ELSE <<>>)
              \o (IF closeOut # NilHandle /\ e \in PgCloseOutAt(pfs, oldLen, newLen, closeOut)
                  THEN <<closeOut>> ELSE <<>>)]]

\* x.Close() by the configuring goroutine, if x != nil
PgCloseNow(pp, h) == IF h = NilHandle THEN pp ELSE EndpointClose(pp, h)

\* stage i returned.  On an error closeIn.Close() and return the error.  If the
\* stage registered nothing (newLen == oldLen) both ends are closed at once;
\* otherwise the two loops hand them to entries, the first one indexing
\* pendingFlushes[fi-1] with fi-1 == -1 when oldLen is 0 and the first entry
\* reads another Stdin (index out of range).  Then s.Stdin = r before the next
\* stage
PgLineAfterStage ==
    /\ mainpc = "config"
    /\ stack # <<>>
    /\ Top.kind = "Line"
    /\ Top.pc = "call"
    /\ ret # "none"
    /\ LET oldLen == Top.oldLen
           newLen == Len(pendingFlushes)
           goOn == /\ mainpc' = mainpc
                   /\ IF Top.i < Top.n
                      THEN /\ live' = [live EXCEPT !.Stdin = Top.r]
                           /\ stack' = SetTop([Top EXCEPT !.i = @ + 1, !.pc = "prep",
                                                          !.newLen = newLen])
                           /\ ret' = "none"
                      ELSE /\ live' = live
                           /\ stack' = Pop
                           /\ ret' = "nil"
       IN  IF IsErr(ret)
           THEN /\ pipes' = PgCloseNow(pipes, Top.closeIn)
                /\ stack' = Pop
                /\ ret' = ret
                /\ UNCHANGED <<live, pendingFlushes, mainpc>>
           ELSE IF newLen = oldLen
           THEN /\ pipes' = PgCloseNow(PgCloseNow(pipes, Top.closeIn), Top.closeOut)
                /\ pendingFlushes' = pendingFlushes
                /\ goOn
           ELSE IF Top.closeIn # NilHandle
                   /\ 0 \in PgCloseInAt(pendingFlushes, oldLen, newLen, Top.closeIn)
           THEN /\ mainpc' = "panic"
                /\ UNCHANGED <<live, pendingFlushes, pipes, stack, ret>>
           ELSE /\ pendingFlushes' = PgAttach(pendingFlushes, oldLen, newLen,
                                              Top.closeIn, Top.closeOut)
                /\ pipes' = pipes
                /\ goOn
    /\ UNCHANGED <<closers, npipes, result>>
    /\ UNCHANGED <<runVars, auxVars>>

\* a Pipe function written by the caller that registers two flushers:
\* s.AddFlusher(f1); s.AddFlusher(f2); return nil
PgStageAddTwo(menu, maxF) ==
    /\ CallSite
    /\ Len(pendingFlushes) + 1 < maxF
    /\ \E f1 \in menu, f2 \in menu :
          LET envs1 == CopyEnvHeap(envs, live.Env)
              n == Len(pendingFlushes)
          IN  /\ pendingFlushes' =
                    pendingFlushes \o
                    <<NewPendingFlush(f1),
                      [NewPendingFlush(f2) EXCEPT !.s.Env = CopyEnvSlice(envs1, live.Env)]>>
              /\ envs' = CopyEnvHeap(envs1, live.Env)
              /\ stack' = [d \in 1..Len(stack) |->
                             [stack[d] EXCEPT !.reg[stack[d].i] = @ \cup {n + 1, n + 2}]]
    /\ ret' = "nil"
    /\ UNCHANGED <<live, closers, pipes, npipes, mainpc, result>>
    /\ UNCHANGED <<runVars, callers, ghostVars>>

\* the bounds of a run of this revision
PgFlushers == 3
PgPipes == 5

ConfigurePg ==
    \/ StageAddFlusher(AnyFlushers, PgFlushers)
    \/ StageFail(MkdirError)
    \/ PgScriptEnter(PgPipes)
    \/ PgScriptAfterStage
    \/ PgScriptAfterFlush
    \/ PgLineEnter(PgPipes)
    \/ PgLinePrep
    \/ PgLineAfterStage
    \/ RunAfterPipe

ExecutePg ==
    \/ FlushAllStart
    \/ \E i \in DOMAIN g : GoStartFlush(i)
    \/ \E i \in DOMAIN g : GoFlushReturn(i)
    \/ \E i \in DOMAIN g : PgGoCloseNext(i)
    \/ \E i \in DOMAIN g : GoSend(i)
    \/ ColRecv
    \/ ColKill
    \/ PgColKillRecv
    \/ PgFlushAllReturn

NextPg == ConfigurePg \/ ExecutePg

\* Output(p) of src/pipe.go
SpecPg == Init /\ [][NextPg]_vars

\* C28: execFlusher.Kill of src/pipe.go (and the kill function of Exec in the
\* task-based revision) calls Kill on a process only if cmd.Start started it:
\* when Start failed and Flush sent the nil handle, Kill does nothing, it
\* never calls Kill on the absent handle
C28_KillOnlyStartedProcess ==
    \A i \in DOMAIN g : g[i].proc # "nilkill"

\* the collector has called Kill on an execFlusher whose cmd.Start failed and
\* has received what its Flush sent
C28_Witness ==
    /\ mainpc \in {"collect", "panic"}
    /\ \E i \in DOMAIN g :
          /\ pendingFlushes[i].f.kind = "execFlusher"
          /\ g[i].res = i
          /\ g[i].proc \notin {"running", "killed", "signalled", "exited"}
          /\ kills[i] > 0
          /\ ch[i] = <<>>

\* a Script is about to return the error of a stage's configuration function
PgScriptConfigFailed ==
    /\ mainpc = "config"
    /\ stack # <<>>
    /\ Top.kind = "Script"
    /\ Top.pc = "call"
    /\ ret \in MkdirError

\* C21: when a stage's configuration function of a Script of src/pipe.go (or
\* of the task-based revision) returns an error, no flusher (task) that a
\* stage of that Script registered has been run
C21_NoFlusherRunsWhenConfigFails ==
    PgScriptConfigFailed => Top.ran = 0

\* the configuration function of a later stage of a Script failed
C21_Witness ==
    /\ PgScriptConfigFailed
    /\ Top.i > 1

(***************************************************************************)
(* Dir and Env across a Script of src/pipe.go                              *)
(***************************************************************************)
ConfigurePgEnv ==
    \/ StageAddFlusher({Flusher("flushFunc", "any")}, EnvFlushers)
    \/ StageFail(MkdirError)
    \/ PgStageChDir(Dirs)
    \/ StageSetEnvVar(EnvNames, EnvValues)
    \/ PgScriptEnter(EnvPipes)
    \/ PgScriptAfterStage
    \/ PgScriptAfterFlush
    \/ RunAfterPipe

ExecutePgEnv ==
    \/ FlushAllStart
    \/ \E i \in DOMAIN g : GoStartFlush(i)
    \/ \E i \in DOMAIN g : GoFlushReturn(i)
    \/ \E i \in DOMAIN g : GoSend(i)
    \/ ColRecv
    \/ ColKill
    \/ PgFlushAllReturn

NextPgEnv == ConfigurePgEnv \/ ExecutePgEnv

SpecPgEnv == Init /\ [][NextPgEnv]_vars

\* a Script of src/pipe.go returns
PgScriptReturns ==
    /\ mainpc = "config"
    /\ stack # <<>>
    /\ Top.kind = "Script"
    /\ Len(stack') < Len(stack)

\* C30: whenever a Script of src/pipe.go (or of the task-based revision)
\* returns, with nil, with a stage's configuration error or with the error of
\* a flush, the State's Dir and the strings of its Env are what they were when
\* the Script was called
C30_ScriptRestoresDirEnv ==
    [][PgScriptReturns =>
          /\ live'.Dir = Top.entry.Dir
          /\ EnvContents(envs', live'.Env) = Top.entry.Env]_vars

\* what the code does keep of C30: a Script that returns nil leaves the
\* strings of Env as they were when it was called
C30_ScriptRestoresEnvOnSuccess ==
    [][(PgScriptReturns /\ ret' = "nil") =>
          EnvContents(envs', live'.Env) = Top.entry.Env]_vars

\* a Script is about to return nil after its stages changed the directory and
\* overwrote V
C30_Witness ==
    /\ mainpc = "config"
    /\ stack # <<>>
    /\ Top.kind = "Script"
    /\ Top.pc = "flushed"
    /\ Top.i = Top.n
    /\ ret = "nil"
    /\ live.Dir # Top.entry.Dir
    /\ HasVar(Top.entry.Env, "V", "old")
    /\ HasVar(EnvContents(envs, live.Env), "V", "new")

(***************************************************************************)
(* Junction ends shared by several flushers in Line of src/pipe.go         *)
(***************************************************************************)
\* Output(p) of src/pipe.go for Lines of flushers, of Pipe functions that
\* register two flushers and of a failing MkDir
ConfigurePgLine ==
    \/ StageAddFlusher({Flusher("flushFunc", "any")}, PgFlushers)
    \/ PgStageAddTwo({Flusher("flushFunc", "any")}, PgFlushers)
    \/ StageFail(MkdirError)
    \/ PgLineEnter(PgPipes)
    \/ PgLinePrep
    \/ PgLineAfterStage
    \/ RunAfterPipe

ExecutePgLine ==
    \/ FlushAllStart
    \/ \E i \in DOMAIN g : GoStartFlush(i)
    \/ \E i \in DOMAIN g : GoFlushReturn(i)
    \/ \E i \in DOMAIN g : PgGoCloseNext(i)
    \/ \E i \in DOMAIN g : GoSend(i)
    \/ ColRecv
    \/ ColKill
    \/ PgFlushAllReturn

NextPgLine == ConfigurePgLine \/ ExecutePgLine

SpecPgLine == Init /\ [][NextPgLine]_vars

\* the entries whose captured Stdout or Stderr is the writer of pipe j, and
\* those whose captured Stdin is its reader
PgWriters(j) ==
    { i \in Entries : \/ pendingFlushes[i].s.Stdout = PipeWriter(j)
                      \/ pendingFlushes[i].s.Stderr = PipeWriter(j) }
PgReaders(j) ==
    { i \in Entries : pendingFlushes[i].s.Stdin = PipeReader(j) }

\* C29: while FlushAll of src/pipe.go runs, Close is called at most once on
\* each end of a junction, and only when every flusher that captured that end
\* (the writer as Stdout or Stderr, the reader as Stdin) has returned from
\* Flush, also for a stage that registered several flushers
C29_SharedEndClosedOnceWhenDone ==
    mainpc = "collect" =>
       \A j \in DOMAIN pipes :
          /\ pipes[j].wclosed <= 1
          /\ pipes[j].rclosed <= 1
          /\ pipes[j].wclosed > 0 => \A i \in PgWriters(j) : FlushReturned(i)
          /\ pipes[j].rclosed > 0 => \A i \in PgReaders(j) : FlushReturned(i)

\* FlushAll runs, two entries hold the writer of one junction and a closeAll
\* has called Close on it
C29_Witness ==
    /\ mainpc = "collect"
    /\ \E j \in DOMAIN pipes :
          /\ Cardinality(PgWriters(j)) >= 2
          /\ pipes[j].wclosed > 0

(***************************************************************************)
(* One State used for several cycles: the caller calls Pipe functions on   *)
(* it, then s.FlushAll(), then goes on with the same State.                *)
(***************************************************************************)
MaxCycles == 3

\* the identity of an entry: the backing array AddFlusher made for its Env
EntryId(pf) == pf.s.Env.a

\* assoc notes the calls of FlushAll made on the State: their number, the
\* entries the last call found in the registry, the entries any call found
\* there, and those found there by more than one call
InitReuse ==
    /\ live = NewState(OutputBuffer(1), NilHandle)
    /\ pendingFlushes = <<>>
    /\ closers = <<>>
    /\ pipes = <<>>
    /\ stack = <<>>
    /\ ret = "none"
    /\ mainpc = "config"
    /\ result = NoErr
    /\ npipes = 1
    /\ g = <<>>
    /\ done = <<>>
    /\ col = ColInit
    /\ ch = <<>>
    /\ kills = <<>>
    /\ callers = NoCallers
    /\ envs = <<OsEnviron>>
    /\ wire = NoWire
    /\ assoc = [calls |-> 0, last |-> {}, ran |-> {}, again |-> {}]

\* the caller takes the value a Pipe function returned and may call another
ReuseCallPipe ==
    /\ mainpc = "config"
    /\ stack = <<>>
    /\ ret # "none"
    /\ ret' = "none"
    /\ UNCHANGED <<live, pendingFlushes, closers, pipes, stack, npipes, mainpc, result>>
    /\ UNCHANGED <<runVars, auxVars>>

\* the caller calls s.FlushAll()
ReuseCallFlushAll ==
    /\ mainpc = "config"
    /\ stack = <<>>
    /\ ret = "none"
    /\ assoc.calls < MaxCycles
    /\ mainpc' = "flushall"
    /\ LET ids == { EntryId(pendingFlushes[i]) : i \in Entries }
       IN  assoc' = [calls |-> assoc.calls + 1, last |-> ids,
                     ran |-> assoc.ran \cup ids,
                     again |-> assoc.again \cup (assoc.ran \cap ids)]
    /\ UNCHANGED <<buildVars, result, runVars, callers, envs, wire>>

\* FlushAll has returned to the caller, who goes on with the same State
ReuseAfterFlushAll ==
    /\ mainpc = "returned"
    /\ mainpc' = "config"
    /\ UNCHANGED <<buildVars, result, runVars, auxVars>>

NextReuse ==
    \/ StageAddFlusher(AnyFlushers, MaxFlushers)
    \/ ReuseCallPipe
    \/ ReuseCallFlushAll
    \/ ReuseAfterFlushAll
    \/ FlushAllStart
    \/ \E i \in DOMAIN g : GoStartFlush(i)
    \/ \E i \in DOMAIN g : GoFlushReturn(i)
    \/ \E i \in DOMAIN g : GoSend(i)
    \/ ColRecv
    \/ ColKill
    \/ ColKillRecv
    \/ FlushAllReturn

SpecReuse == InitReuse /\ [][NextReuse]_vars

\* C31: when FlushAll has returned, with or without an error, the registry is
\* empty; a FlushAll called on an empty registry starts no goroutine, calls no
\* Kill and returns nil; the entries a FlushAll runs are those registered
\* since the last FlushAll, each has had its Flush called when FlushAll
\* returns, and no entry is found in the registry by two calls of FlushAll
C31_RegistryClearedAfterRun ==
    /\ mainpc = "returned" => pendingFlushes = <<>>
    /\ assoc.again = {}
    /\ (mainpc \in {"collect", "returned"} /\ assoc.last = {}) =>
          /\ g = <<>>
          /\ kills = <<>>
          /\ col.pc \notin {"kill", "killrecv"}
          /\ col.first = NoErr
          /\ mainpc = "returned" => result = NoErr
    /\ mainpc = "collect" =>
          { EntryId(pendingFlushes[i]) : i \in Entries } = assoc.last
    /\ mainpc = "returned" =>
          /\ Len(g) = Cardinality(assoc.last)
          /\ \A i \in DOMAIN g : g[i].pc = "end"
    /\ mainpc = "config" =>
          \A i \in Entries : EntryId(pendingFlushes[i]) \notin assoc.ran

\* a later FlushAll on the State has returned nil after running the entries
\* registered since an earlier FlushAll, which ran other entries
C31_Witness ==
    /\ mainpc = "returned"
    /\ assoc.calls >= 2
    /\ assoc.last # {}
    /\ assoc.ran # assoc.last
    /\ result = NoErr

(***************************************************************************)
(* The streams of the State are never nil                                  *)
(***************************************************************************)
\* the three stream fields of State st hold handles, none is nil
StreamsSet(st) ==
    /\ st.Stdin # NilHandle
    /\ st.Stdout # NilHandle
    /\ st.Stderr # NilHandle

\* C32: from NewState on, through every step of Script, Line, CombineToOut
\* and CombineToErr, Stdin, Stdout and Stderr of the live State are not nil,
\* and neither are the three streams of any State that AddFlusher captured
C32_StreamsNeverNil ==
    /\ StreamsSet(live)
    /\ \A i \in DOMAIN pendingFlushes : StreamsSet(pendingFlushes[i].s)

\* Run (NewState(nil, nil)) has configured a Line: an entry behind a junction
\* writes to the discarding writer that replaced the nil stdout
C32_Witness ==
    /\ mainpc = "flushall"
    /\ \E i \in DOMAIN pendingFlushes :
          /\ pendingFlushes[i].s.Stdin.k = "PipeReader"
          /\ pendingFlushes[i].s.Stdout = Discard
          /\ pendingFlushes[i].s.Stderr = Discard

(***************************************************************************)
(* The names of the environment                                            *)
(***************************************************************************)
\* no two strings of env have the same name before "="
OneEntryPerName(env) ==
    \A i, j \in DOMAIN env : env[i][1] = env[j][1] => i = j

\* C33: the environment of the process has one string per name, and
\* SetEnvVar overwrites the first string of the name or appends when there is
\* none; so the Env of the live State and the Env every entry captured hold
\* at most one string per name, whatever SetEnvVar calls were made, inside
\* nested Scripts and Lines too
C33_OneEntryPerName ==
    /\ OneEntryPerName(EnvContents(envs, live.Env))
    /\ \A i \in DOMAIN pendingFlushes :
          OneEntryPerName(EnvContents(envs, pendingFlushes[i].s.Env))

\* inside a nested Script or Line V was overwritten, W was appended and then
\* overwritten, and an entry captured that environment
C33_Witness ==
    /\ Len(stack) >= 2
    /\ HasVar(EnvContents(envs, live.Env), "V", "new")
    /\ HasVar(EnvContents(envs, live.Env), "W", "after")
    /\ \E i \in DOMAIN pendingFlushes :
          /\ HasVar(EnvContents(envs, pendingFlushes[i].s.Env), "V", "new")
          /\ HasVar(EnvContents(envs, pendingFlushes[i].s.Env), "W", "new")

(***************************************************************************)
(* State.EnvVar                                                            *)
(***************************************************************************)
\* s.EnvVar(name) on the strings env: the value of the first string that
\* starts with name + "=", or the empty string if there is none
EnvVar(env, name) ==
    LET hit == { i \in DOMAIN env : env[i][1] = name }
    IN  IF hit = {} THEN ""
        ELSE env[CHOOSE i \in hit : \A x \in hit : i <= x][2]

\* the names EnvVar is asked for: those SetEnvVar sets and one never set
LookupNames == EnvNames \cup {"X"}

\* C34: after SetEnvVar(name, value) EnvVar(name) is value and EnvVar(other)
\* is what it was for every other name, so EnvVar(name) is the value of the
\* most recent SetEnvVar(name, .); EnvVar of a name without an entry is the
\* empty string
C34_EnvVarLastWriterWins ==
    /\ [][\A name \in EnvNames, value \in EnvValues :
            StageSetEnvVar({name}, {value}) =>
               /\ EnvVar(EnvContents(envs', live'.Env), name) = value
               /\ \A other \in LookupNames \ {name} :
                     EnvVar(EnvContents(envs', live'.Env), other) =
                     EnvVar(EnvContents(envs, live.Env), other)]_vars
    /\ [](\A name \in LookupNames :
            (\A i \in 1..live.Env.n : EnvContents(envs, live.Env)[i][1] # name)
               => EnvVar(EnvContents(envs, live.Env), name) = "")

\* V was set to new, an entry was registered, then V was set to after and W
\* to new: EnvVar gives the last value of each and nothing for X
C34_Witness ==
    /\ ret = "nil"
    /\ EnvVar(EnvContents(envs, live.Env), "V") = "after"
    /\ EnvVar(EnvContents(envs, live.Env), "W") = "new"
    /\ EnvVar(EnvContents(envs, live.Env), "X") = ""
    /\ \E i \in DOMAIN pendingFlushes :
          /\ EnvVar(EnvContents(envs, pendingFlushes[i].s.Env), "V") = "new"
          /\ EnvVar(EnvContents(envs, pendingFlushes[i].s.Env), "W") = ""

(***************************************************************************)
(* State.Path called on its own (specification SpecPath).                  *)
(***************************************************************************)
MaxSegments == 2   \* arguments of one call of Path
MaxDirLen == 7     \* names and separators of s.Dir

\* the segments Path and ChDir are called with
Segments ==
    { <<>>, <<"b">>, <<"c">>, <<"/", "a">>, <<"/", "b">>, <<"b", "/">>,
      <<"..">>, <<".">>, <<"/">> }

SegmentLists ==
    UNION { [1..n -> Segments] : n \in 0..MaxSegments }

\* a State as NewState makes it, or with Dir assigned as TestStatePath does;
\* assoc notes the last call of Path: s.Dir, the arguments and the result
InitPath ==
    /\ \E d \in { <<>>, <<"/", "a">> } :
          live = [NewState(NilHandle, NilHandle) EXCEPT !.Dir = d]
    /\ pendingFlushes = <<>>
    /\ closers = <<>>
    /\ pipes = <<>>
    /\ stack = <<>>
    /\ ret = "none"
    /\ mainpc = "config"
    /\ result = NoErr
    /\ npipes = 1
    /\ g = <<>>
    /\ done = <<>>
    /\ col = ColInit
    /\ ch = <<>>
    /\ kills = <<>>
    /\ callers = NoCallers
    /\ envs = <<OsEnviron>>
    /\ wire = NoWire
    /\ assoc = [dir |-> <<>>, path |-> <<>>, res |-> <<>>]

\* s.Path(path...) is called
PathCall ==
    /\ \E path \in SegmentLists :
          assoc' = [dir |-> live.Dir, path |-> path, res |-> StatePath(live.Dir, path)]
    /\ UNCHANGED <<buildVars, mainpc, result, runVars, callers, envs, wire>>

\* ChDir(dir)(s): s.Dir = s.Path(dir)
PathChDir ==
    /\ \E dir \in Segments :
          /\ Len(StatePath(live.Dir, <<dir>>)) <= MaxDirLen
          /\ live' = [live EXCEPT !.Dir = StatePath(live.Dir, <<dir>>)]
          /\ assoc' = [dir |-> live.Dir, path |-> <<dir>>,
                       res |-> StatePath(live.Dir, <<dir>>)]
    /\ UNCHANGED <<pendingFlushes, closers, pipes, stack, ret, npipes>>
    /\ UNCHANGED <<mainpc, result, runVars, callers, envs, wire>>

NextPath == PathCall \/ PathChDir

SpecPath == InitPath /\ [][NextPath]_vars

\* C35: s.Path() is s.Dir; with an absolute first segment it is the join of
\* the segments alone; otherwise it is the join of s.Dir and all segments;
\* s.Path("") is s.Dir; and with s.Dir = "/a" the results are those of
\* TestStatePath
C35_PathResolves ==
    LET d == assoc.dir
        p == assoc.path
        r == assoc.res
    IN  /\ p = <<>> => r = d
        /\ (p # <<>> /\ IsAbs(p[1])) => r = Join(p)
        /\ (p # <<>> /\ ~IsAbs(p[1])) => r = Join(<<d>> \o p)
        /\ p = << <<>> >> => r = d
        /\ d = <<"/", "a">> =>
              /\ p = <<>> => r = <<"/", "a">>
              /\ p = << <<>> >> => r = <<"/", "a">>
              /\ p = << <<"b">> >> => r = <<"/", "a", "/", "b">>
              /\ p = << <<"b">>, <<"c">> >> => r = <<"/", "a", "/", "b", "/", "c">>
              /\ p = << <<"/", "b">>, <<"c">> >> => r = <<"/", "b", "/", "c">>

\* Path("/b", "c") was called with s.Dir = "/a/b" and gave "/b/c"
C35_Witness ==
    /\ assoc.dir = <<"/", "a", "/", "b">>
    /\ assoc.path = << <<"/", "b">>, <<"c">> >>
    /\ assoc.res = <<"/", "b", "/", "c">>

(***************************************************************************)
(* WriteFile of src/pipe.go and of the task-based revision: the flusher    *)
(* assigns to the variable path that the stage value captured.  The one    *)
(* stage value p := WriteFile(arg, perm) is called on a State any number   *)
(* of times, with ChDir in between, and FlushAll runs the flusher of each  *)
(* entry in a goroutine of its own, with the Dir that the entry captured   *)
(* (specification SpecWriteFile).  The goroutines of one FlushAll read and *)
(* write the captured variable with nothing that orders them.              *)
(***************************************************************************)
MaxOpens == 3   \* flushes of the one stage value
MaxOpenDirLen == 3   \* names and separators of s.Dir between the flushes

\* the paths WriteFile is called with
FileArgs == { <<"f">>, <<"b", "/", "f">>, <<"/", "f">> }

\* the flusher that WriteFile registers
WriteFileFlusher == Flusher("flusherFunc", "WriteFile")

\* what a read of the string variable may give while another goroutine
\* assigns to it: a string header that is half of the old and half of the new
Torn == <<"?">>

\* p := WriteFile(arg, perm) and a State with some Dir; assoc holds the
\* argument, the captured variable path, the number of the FlushAll in
\* progress and, for each flush so far in the order of the calls of
\* os.OpenFile, the FlushAll it belongs to, the number of entries of that
\* FlushAll, the s.Dir of the entry and the path given to os.OpenFile
InitWriteFile ==
    /\ \E d \in { <<>>, <<"/", "a">>, <<"b">> } :
          live = [NewState(NilHandle, NilHandle) EXCEPT !.Dir = d]
    /\ pendingFlushes = <<>>
    /\ closers = <<>>
    /\ pipes = <<>>
    /\ stack = <<>>
    /\ ret = "none"
    /\ mainpc = "config"
    /\ result = NoErr
    /\ npipes = 1
    /\ g = <<>>
    /\ done = <<>>
    /\ col = ColInit
    /\ ch = <<>>
    /\ kills = <<>>
    /\ callers = NoCallers
    /\ envs = <<OsEnviron>>
    /\ wire = NoWire
    /\ \E arg \in FileArgs :
          assoc = [arg |-> arg, path |-> arg, run |-> 0, opened |-> <<>>]

\* p(s): s.AddFlusher(flusherFunc(f)) with the closure f of the stage value
WriteFileStage ==
    /\ mainpc = "config"
    /\ Len(assoc.opened) + Len(pendingFlushes) < MaxOpens
    /\ AddFlusher(WriteFileFlusher)
    /\ UNCHANGED <<live, closers, pipes, ret, npipes, mainpc, result>>
    /\ UNCHANGED <<runVars, callers, ghostVars>>

\* ChDir(dir)(s) of src/pipe.go between two calls of the stage
WriteFileChDir ==
    /\ mainpc = "config"
    /\ \E dir \in { <<"b">>, <<"/", "a">> } :
          /\ Len(Join(<<live.Dir, dir>>)) <= MaxOpenDirLen
          /\ live' = [live EXCEPT !.Dir = Join(<<live.Dir, dir>>)]
    /\ UNCHANGED <<pendingFlushes, closers, pipes, stack, ret, npipes>>
    /\ UNCHANGED <<mainpc, result, runVars, auxVars>>

\* s.FlushAll(): one goroutine for each entry, each about to call
\* pf.f.Flush(&pf.s)
WriteFileFlushAll ==
    /\ mainpc = "config"
    /\ pendingFlushes # <<>>
    /\ mainpc' = "collect"
    /\ g' = [i \in Entries |-> [pc |-> "join", t |-> <<>>]]
    /\ assoc' = [assoc EXCEPT !.run = @ + 1]
    /\ UNCHANGED <<buildVars, result, done, col, ch, kills, callers, envs, wire>>

\* another goroutine stands between computing the joined path and having
\* assigned it: its assignment may be under way
Assigning(i) == \E k \in DOMAIN g : k # i /\ g[k].pc = "store"

\* what goroutine i may read from the variable path
PathRead(i) == IF Assigning(i) THEN {assoc.path, Torn} ELSE {assoc.path}

\* filepath.Join(dir, path) of a path as read
JoinRead(dir, path) == IF path = Torn THEN Torn ELSE Join(<<dir, path>>)

\* the right-hand side of path = filepath.Join(s.Dir, path): s is &pf.s, the
\* State the entry captured
WriteFileJoin(i) ==
    /\ mainpc = "collect"
    /\ g[i].pc = "join"
    /\ \E v \in PathRead(i) :
          g' = [g EXCEPT ![i] = [pc |-> "store",
                                 t |-> JoinRead(pendingFlushes[i].s.Dir, v)]]
    /\ UNCHANGED <<buildVars, mainpc, result, done, col, ch, kills, auxVars>>

\* the assignment to the captured variable
WriteFileStore(i) ==
    /\ mainpc = "collect"
    /\ g[i].pc = "store"
    /\ \E v \in IF Assigning(i) THEN {g[i].t, Torn} ELSE {g[i].t} :
          assoc' = [assoc EXCEPT !.path = v]
    /\ g' = [g EXCEPT ![i].pc = "open"]
    /\ UNCHANGED <<buildVars, mainpc, result, done, col, ch, kills, callers, envs, wire>>

\* os.OpenFile(path, ...): the variable is read again
WriteFileOpen(i) ==
    /\ mainpc = "collect"
    /\ g[i].pc = "open"
    /\ \E v \in PathRead(i) :
          assoc' = [assoc EXCEPT !.opened =
                       Append(@, [run |-> assoc.run, n |-> NumEntries,
                                  dir |-> pendingFlushes[i].s.Dir, file |-> v])]
    /\ g' = [g EXCEPT ![i].pc = "end"]
    /\ UNCHANGED <<buildVars, mainpc, result, done, col, ch, kills, callers, envs, wire>>

\* every Flush has returned and its result was received: FlushAll returns
WriteFileReturn ==
    /\ mainpc = "collect"
    /\ \A i \in DOMAIN g : g[i].pc = "end"
    /\ pendingFlushes' = <<>>
    /\ g' = <<>>
    /\ mainpc' = "config"
    /\ UNCHANGED <<live, closers, pipes, stack, ret, npipes>>
    /\ UNCHANGED <<result, done, col, ch, kills, auxVars>>

NextWriteFile ==
    \/ WriteFileStage
    \/ WriteFileChDir
    \/ WriteFileFlushAll
    \/ \E i \in DOMAIN g : WriteFileJoin(i)
    \/ \E i \in DOMAIN g : WriteFileStore(i)
    \/ \E i \in DOMAIN g : WriteFileOpen(i)
    \/ WriteFileReturn

SpecWriteFile == InitWriteFile /\ [][NextWriteFile]_vars

\* C36: two flushes of the same WriteFile stage of src/pipe.go (or of the
\* task-based revision) that run with the same s.Dir open the same file path
C36_SameDirSamePath ==
    \A i, j \in DOMAIN assoc.opened :
        assoc.opened[i].dir = assoc.opened[j].dir =>
           assoc.opened[i].file = assoc.opened[j].file

\* what the code does keep of C36: when the first FlushAll has the stage as
\* its only entry, that flush opens the join of s.Dir and the path WriteFile
\* was given
C36_FirstFlushResolves ==
    \A x \in DOMAIN assoc.opened :
        (assoc.opened[x].run = 1 /\ assoc.opened[x].n = 1) =>
           assoc.opened[x].file = Join(<<assoc.opened[x].dir, assoc.arg>>)

\* the stage has been flushed twice, one FlushAll after the other, with the
\* same s.Dir, which is not empty, and the second flush opened another path
C36_Witness ==
    /\ Len(assoc.opened) >= 2
    /\ assoc.opened[1].run # assoc.opened[2].run
    /\ assoc.opened[1].dir = assoc.opened[2].dir
    /\ assoc.opened[1].dir # <<>>
    /\ assoc.opened[1].file # assoc.opened[2].file

(***************************************************************************)
(* The wait graph that Script builds                                       *)
(***************************************************************************)
\* the entries that entry e waits for: those that list e among their waiters
Predecessors(e) ==
    { k \in DOMAIN pendingFlushes :
        \E x \in DOMAIN pendingFlushes[k].wf : pendingFlushes[k].wf[x] = e }

\* C37: while a composition is configured, every entry that waits does so for
\* an entry registered strictly before it, in an earlier stage of a Script
\* that holds both (so never for an entry registered before that Script was
\* called); no entry is listed twice among the waiters of another, an entry's
\* counter is the number of entries it waits for, and once the composition is
\* configured an entry waits for exactly the entries of those earlier stages
C37_WaitGraphWellFormed ==
    \A k \in DOMAIN pendingFlushes :
        LET wf == pendingFlushes[k].wf
        IN  /\ \A x \in DOMAIN wf :
                  /\ wf[x] \in DOMAIN pendingFlushes
                  /\ wf[x] > k
                  /\ k \in pendingFlushes[wf[x]].after
            /\ \A x, y \in DOMAIN wf : wf[x] = wf[y] => x = y
            /\ pendingFlushes[k].wg = Cardinality(Predecessors(k))
            /\ mainpc = "flushall" => Predecessors(k) = pendingFlushes[k].after

\* a composition is configured in which an entry of a Script waits for an
\* earlier stage of that Script, but not for an entry that the enclosing scope
\* registered before the Script was called
C37_Witness ==
    /\ mainpc = "flushall"
    /\ \E e \in DOMAIN pendingFlushes :
          \E k \in Predecessors(e) :
             \E j \in 1..(k - 1) :
                /\ j \notin Predecessors(e)
                /\ pendingFlushes[j].depth < pendingFlushes[k].depth

(***************************************************************************)
(* The result channel of FlushAll.                                         *)
(***************************************************************************)
\* entry i's goroutine has finished pf.done() and stands at "done <- err"
SendReady(i) ==
    /\ g[i].pc = "done"
    /\ g[i].ci > Len(pendingFlushes[i].c)
    /\ g[i].wi > Len(pendingFlushes[i].wf)

\* the entries whose goroutine has sent its result
Sent == { i \in DOMAIN g : g[i].pc = "end" }

\* the collector is inside execFlusher.Kill, blocked at p := <-f.ch
BlockedInKill == col.pc = "killrecv" /\ ch[col.ki] = <<>>

\* C38: the result channel has room for one result of every entry and each
\* goroutine sends one result: a goroutine that stands at its send can always
\* complete it, whatever the collector is doing, the results sent are those
\* received plus those in the channel, and when FlushAll returns the collector
\* has received one result of every entry and none is left
C38_ResultSendNeverBlocks ==
    /\ mainpc = "collect" =>
          /\ \A i \in DOMAIN g : SendReady(i) => ENABLED GoSend(i)
          /\ Len(done) + col.n = Cardinality(Sent)
          /\ Len(done) <= NumEntries
    /\ (mainpc = "returned" /\ g # <<>>) =>
          /\ col.n = Len(g)
          /\ done = <<>>
          /\ Sent = DOMAIN g

\* the collector has received an error and is blocked inside the Kill of an
\* entry whose Flush has not sent its process yet, while the result of another
\* goroutine, which has ended, lies in the channel
C38_Witness ==
    /\ mainpc = "collect"
    /\ BlockedInKill
    /\ col.n >= 1
    /\ Len(done) >= 1
    /\ \E i \in Sent : g[col.ki].pc = "wait" /\ i # col.ki

(***************************************************************************)
(* Runs of compositions whose stages may also rewire the streams           *)
(* (CombineToOut, CombineToErr), so that one flusher may capture a         *)
(* junction writer as Stdout and as Stderr (specification SpecJunction).   *)
(***************************************************************************)
ConfigureJunction ==
    \/ StageAddFlusher(AnyFlushers, MaxFlushers)
    \/ StageCombineToOut
    \/ StageCombineToErr
    \/ StageFail(MkdirError)
    \/ ScriptEnter(MaxPipes)
    \/ ScriptAfterStage
    \/ LineEnter(MaxPipes)
    \/ LinePrep
    \/ LineAfterStage
    \/ LineInspect
    \/ LineAttach
    \/ LineCloseIn
    \/ LineCloseOut
    \/ RunAfterPipe

NextJunction == ConfigureJunction \/ Execute

SpecJunction == Init /\ [][NextJunction]_vars

\* the composition was configured without an error and its FlushAll returned
RunCompleted == mainpc = "returned" /\ col.pc = "returned"

\* entry i captured the writer of junction j as its Stdout and as its Stderr
BothOutputs(pf, j) == pf.s.Stdout = PipeWriter(j) /\ pf.s.Stderr = PipeWriter(j)

\* the collector has received the result of every entry: each goroutine has
\* returned from Flush and finished pf.done(); FlushAll is about to return
AllCollected == mainpc = "collect" /\ col.pc = "recv" /\ col.n = NumEntries

\* C39: once the composition has been configured without an error no end of a
\* junction is closed more than once, and when every result of its FlushAll
\* has been received, and when FlushAll has returned, the reader and the
\* writer of every junction made by a Line have been closed exactly once
C39_JunctionEndsClosedOnce ==
    /\ mainpc \in {"flushall", "collect"} \/ RunCompleted =>
          \A j \in DOMAIN pipes : pipes[j].rclosed <= 1 /\ pipes[j].wclosed <= 1
    /\ AllCollected \/ RunCompleted =>
          \A j \in DOMAIN pipes : pipes[j].rclosed = 1 /\ pipes[j].wclosed = 1

\* every result has been received in a run where one entry captured the
\* writer of a junction as its Stdout and as its Stderr and holds its closer
\* twice, while no entry captured the reader of that junction (the stage
\* behind it registered no flusher): both ends have been closed once
C39_Witness ==
    /\ AllCollected
    /\ \E j \in DOMAIN pipes :
          /\ \E i \in Entries :
                /\ BothOutputs(pendingFlushes[i], j)
                /\ Len(pendingFlushes[i].c) = 2
                /\ pendingFlushes[i].c[1] = pendingFlushes[i].c[2]
          /\ \A i \in Entries : pendingFlushes[i].s.Stdin # PipeReader(j)
          /\ pipes[j].rclosed = 1
          /\ pipes[j].wclosed = 1

(***************************************************************************)
(* The release of the entries that wait                                    *)
(***************************************************************************)
\* Runs of flushers that fail at once, of the Echo of a short string, and of
\* processes that exit by themselves unless they are killed, with or without
\* reading their standard input, in Scripts and Lines, with the goroutines of
\* FlushAll scheduled whenever they are not blocked (specification SpecRelease)
ReleaseFlushers ==
    { Flusher("flushFunc", "err"), Flusher("flushFunc", "wr"),
      Flusher("execFlusher", "exit"), Flusher("execFlusher", "filter") }
ReleasePipes == MaxPipes

ConfigureRelease ==
    \/ StageAddFlusher(ReleaseFlushers, MaxFlushers)
    \/ ScriptEnter(ReleasePipes)
    \/ ScriptAfterStage
    \/ LineEnter(ReleasePipes)
    \/ LinePrep
    \/ LineAfterStage
    \/ LineInspect
    \/ LineAttach
    \/ LineCloseIn
    \/ LineCloseOut
    \/ RunAfterPipe

NextRelease == ConfigureRelease \/ Execute

SpecRelease == Init /\ [][NextRelease]_vars /\ WF_vars(Execute)

\* entry k's goroutine has called wg.Done() for its waiter e
HasReleased(k, e) ==
    \E x \in DOMAIN pendingFlushes[k].wf :
        pendingFlushes[k].wf[x] = e /\ g[k].wi > x

\* the entries e waits for that have not called wg.Done() for it yet
Unreleased(e) == { k \in Predecessors(e) : ~HasReleased(k, e) }

\* the Flush of every entry that e waits for has returned
PredecessorsReturned(e) ==
    /\ mainpc = "collect"
    /\ e \in DOMAIN g
    /\ \A k \in Predecessors(e) : Returned(k)

\* C40: while FlushAll runs, the counter of each entry is the number of the
\* entries it waits for that have not yet called Done for it (each does so
\* once, whatever its Flush returned) and is never negative; and an entry
\* whose predecessors have all returned from Flush, with nil or with an error,
\* eventually leaves pf.wait()
C40_WaiterReleased ==
    /\ [](mainpc = "collect" =>
            \A e \in Entries :
                /\ pendingFlushes[e].wg >= 0
                /\ pendingFlushes[e].wg = Cardinality(Unreleased(e)))
    /\ \A e \in 1..MaxFlushers :
          PredecessorsReturned(e) ~> (e \in DOMAIN g /\ Started(e))

\* an entry has left pf.wait() behind a predecessor whose Flush returned an
\* error and which has called Done for it
C40_Witness ==
    /\ mainpc = "collect"
    /\ \E e \in Entries : \E k \in Predecessors(e) :
          /\ g[k].res # NoErr
          /\ HasReleased(k, e)
          /\ pendingFlushes[e].wg = 0
          /\ Started(e)

\* in the reference-counted revision and in src/pipe.go every closer that is
\* registered with an entry wraps an end of an io.Pipe, whose Close returns
\* nil: no release that can fail is registered there
ClosersArePipeEnds ==
    \A rc \in DOMAIN closers : closers[rc].c.k \in {"PipeReader", "PipeWriter"}

====
